---- MODULE Spec2Model ----
(***************************************************************************)
(* Fear & Greed index estimator: causal percentile scoring                 *)
(* (utils.percentile_score) and composite aggregation                      *)
(* (utils.compute_fear_greed).                                             *)
(*                                                                         *)
(* Floats are modelled as exact rationals [nan, num, den] in lowest terms  *)
(* with den > 0; NaN is the record whose nan field is TRUE.  An optional   *)
(* argument (window, lower_q, upper_q, weights) is a sequence: <<>> is     *)
(* Python's None and <<x>> carries the value x.                            *)
(***************************************************************************)
EXTENDS Integers, Sequences, FiniteSets, TLC

VARIABLES
    pc,           \* position of the running call
    series,       \* percentile_score: the input series
    invert,       \* percentile_score: invert flag
    min_periods,  \* scoring configuration
    window,       \* scoring configuration (None = expanding)
    lower_q,      \* scoring configuration
    upper_q,      \* scoring configuration
    i,            \* percentile_score: loop index of enumerate(s.items()), 0-based
    scores,       \* percentile_score: the result series being filled
    components,   \* compute_fear_greed: the component table (column -> series)
    weights,      \* compute_fear_greed: None or a weight map
    intercept,    \* compute_fear_greed: additive bias
    fg_k,         \* compute_fear_greed: position in FG_COMPONENT_SPECS, 0-based
    fg_scores,    \* compute_fear_greed: the score table (column -> series)
    fg_name,      \* compute_fear_greed: the returned composite column name
    cc_df,        \* compute_components: the raw panel (column -> series)
    cc_fill,      \* compute_components: what Series.pct_change does with gaps
    cc_k,         \* compute_components: number of component columns written
    cc_out,       \* compute_components: the component table being built
    cc_error,     \* compute_components: None or the raised KeyError
    ge_req,       \* get_fgi_estimation: the arguments of the call
    ge_env,       \* get_fgi_estimation: today, the model file, the fetched panel
    ge_start_ts,  \* get_fgi_estimation: start_ts
    ge_end_ts,    \* get_fgi_estimation: end_ts
    ge_model,     \* get_fgi_estimation: (weights, intercept)
    ge_components,\* get_fgi_estimation: components
    ge_scored,    \* get_fgi_estimation: (scores, fg_col_name)
    ge_result,    \* get_fgi_estimation: the returned table
    ge_error,     \* get_fgi_estimation: "" or the exception that ended the call
    api_handler,  \* api: the endpoint handling the request
    api_req,      \* api: the query parameters
    api_env,      \* api: what the pipeline and the market loader can reach
    api_cache,    \* services: the files of CACHE_DIR (file name -> content)
    api_dir,      \* services: CACHE_DIR exists
    api_k,        \* get_chart: position in keys, 0-based
    api_df,       \* get_chart / get_fgi: df, None while unbound
    api_col,      \* get_chart / get_fgi: col, None while unbound
    api_datasets, \* get_chart: datasets
    api_span,     \* get_chart: (start_date, end_date_actual), None while unset
    api_resp,     \* api: None or the response returned
    api_error,    \* api: "" or the exception that ended the request
    svc_proc,     \* get_fgi_series: caller -> the position and locals of its call
    mkt_proc,     \* get_market_series: caller -> the position and locals of its call
    svc_stored    \* history: file -> the frame a call of get_fgi_series computed
                  \* and wrote there, and the combination it was computed for

vars == <<pc, series, invert, min_periods, window, lower_q, upper_q, i, scores,
          components, weights, intercept, fg_k, fg_scores, fg_name,
          cc_df, cc_fill, cc_k, cc_out, cc_error,
          ge_req, ge_env, ge_start_ts, ge_end_ts, ge_model, ge_components,
          ge_scored, ge_result, ge_error,
          api_handler, api_req, api_env, api_cache, api_dir, api_k, api_df, api_col,
          api_datasets, api_span, api_resp, api_error,
          svc_proc, mkt_proc, svc_stored>>

psVars == <<series, invert, i, scores>>
cfgVars == <<min_periods, window, lower_q, upper_q>>
fgVars == <<components, weights, intercept, fg_k, fg_scores, fg_name>>
ccVars == <<cc_df, cc_fill, cc_k, cc_out, cc_error>>
geVars == <<ge_req, ge_env, ge_start_ts, ge_end_ts, ge_model, ge_components,
            ge_scored, ge_result, ge_error>>
apiVars == <<api_handler, api_req, api_env, api_cache, api_dir, api_k, api_df, api_col,
             api_datasets, api_span, api_resp, api_error>>
svcVars == <<svc_proc, mkt_proc, svc_stored>>

(***************************************************************************)
(* Bounds of the model.                                                    *)
(***************************************************************************)
MaxLen == 4          \* longest series given to percentile_score
MaxMinPeriods == 2   \* min_periods ranges over 1..MaxMinPeriods
MaxWindow == 3       \* window ranges over None and MaxMinPeriods..MaxWindow
FGRows == 2          \* rows of the component table given to compute_fear_greed
ShortRows == 2       \* rows of the panels that vary the columns present
LongRows == 201      \* rows of the panels that fill every moving-average window
OrchRows == 23       \* rows of the panels fetched for get_fgi_estimation

(***************************************************************************)
(* Optional values.                                                        *)
(***************************************************************************)
None == <<>>
Some(x) == <<x>>
IsNone(o) == Len(o) = 0
Get(o) == o[1]

(***************************************************************************)
(* Float arithmetic, exact.                                                *)
(***************************************************************************)
Abs(x) == IF x < 0 THEN -x ELSE x
Max(a, b) == IF a >= b THEN a ELSE b
Min(a, b) == IF a <= b THEN a ELSE b

RECURSIVE GCD(_, _)
GCD(a, b) == IF b = 0 THEN a ELSE GCD(b, a % b)

NaN == [nan |-> TRUE, num |-> 0, den |-> 1]

Rat(n, d) ==
    LET g == GCD(Abs(n), Abs(d))
        sgn == IF d < 0 THEN -1 ELSE 1
    IN  [nan |-> FALSE, num |-> (sgn * n) \div g, den |-> (sgn * d) \div g]

Float(n) == Rat(n, 1)

isna(x) == x.nan

Add(x, y) == IF x.nan \/ y.nan THEN NaN
             ELSE Rat(x.num * y.den + y.num * x.den, x.den * y.den)
Sub(x, y) == IF x.nan \/ y.nan THEN NaN
             ELSE Rat(x.num * y.den - y.num * x.den, x.den * y.den)
Mul(x, y) == IF x.nan \/ y.nan THEN NaN
             ELSE Rat(x.num * y.num, x.den * y.den)
Div(x, n) == IF x.nan THEN NaN ELSE Rat(x.num, x.den * n)
\* x / y for a non-zero y (levels and their means are positive)
TrueDiv(x, y) == IF x.nan \/ y.nan THEN NaN ELSE Rat(x.num * y.den, x.den * y.num)

\* Comparisons with NaN are false, as in IEEE 754.
Lt(x, y) == ~x.nan /\ ~y.nan /\ x.num * y.den < y.num * x.den
Le(x, y) == ~x.nan /\ ~y.nan /\ x.num * y.den <= y.num * x.den
Eq(x, y) == ~x.nan /\ ~y.nan /\ x.num * y.den = y.num * x.den

Floor(x) == x.num \div x.den

(***************************************************************************)
(* Series helpers (pandas).                                                *)
(***************************************************************************)
\* s.iloc[a:b], 0-based and half-open, clamped to the series
iloc(s, a, b) == SubSeq(s, Max(a, 0) + 1, Min(b, Len(s)))

\* Series.dropna()
dropna(s) == SelectSeq(s, LAMBDA x : ~isna(x))

\* values in ascending order (the order statistics Series.quantile reads)
RECURSIVE Insert(_, _)
Insert(x, s) ==
    IF Len(s) = 0 THEN <<x>>
    ELSE IF Le(x, Head(s)) THEN <<x>> \o s
    ELSE <<Head(s)>> \o Insert(x, Tail(s))

RECURSIVE sort_values(_)
sort_values(s) == IF Len(s) = 0 THEN <<>> ELSE Insert(Head(s), sort_values(Tail(s)))

\* Series.quantile(q), linear interpolation, on a non-empty NaN-free series
quantile(h, q) ==
    LET n == Len(h)
        a == sort_values(h)
        pos == Mul(q, Float(n - 1))
        lo == Floor(pos)
        frac == Sub(pos, Float(lo))
        hi == Min(lo + 1, n - 1)
    IN  Add(a[lo + 1], Mul(Sub(a[hi + 1], a[lo + 1]), frac))

\* Series.clip(lower, upper) on one value; pandas orders the two scalar bounds
clip(x, lower, upper) ==
    LET lo == IF Le(lower, upper) THEN lower ELSE upper
        up == IF Le(lower, upper) THEN upper ELSE lower
    IN  IF Lt(x, lo) THEN lo ELSE IF Lt(up, x) THEN up ELSE x

clipSeries(h, lower, upper) ==
    LET lo == lower
        up == upper
    IN  [k \in 1..Len(h) |-> clip(h[k], lo, up)]

\* mutant: rank(method="max", pct=True), ties counted as <=
rank_pct_last_max(h) ==
    LET n == Len(h)
        atmost == Cardinality({k \in 1..n : Le(h[k], h[n])})
    IN  Rat(atmost, n)

\* mutant: rank(method="min", pct=True)
rank_pct_last_min(h) ==
    LET n == Len(h)
        less == Cardinality({k \in 1..n : Lt(h[k], h[n])})
    IN  Rat(less + 1, n)

\* mutant: rank() without pct=True
rank_pct_last_nopct(h) ==
    LET n == Len(h)
        less == Cardinality({k \in 1..n : Lt(h[k], h[n])})
        same == Cardinality({k \in 1..n : Eq(h[k], h[n])})
    IN  Rat(2 * less + same + 1, 2)

\* Series.rank(pct=True).iloc[-1]: average rank of the last value over the count
rank_pct_last(h) ==
    LET n == Len(h)
        less == Cardinality({k \in 1..n : Lt(h[k], h[n])})
        same == Cardinality({k \in 1..n : Eq(h[k], h[n])})
    IN  Rat(2 * less + same + 1, 2 * n)

(***************************************************************************)
(* percentile_score                                                        *)
(***************************************************************************)
\* mutant: the missing-value test is dropped
val_is_missing_never(val) == FALSE

\* pd.isna(val): the row is skipped
val_is_missing(val) == isna(val)

\* mutant: the warm-up test is off by one
below_min_periods_le(h, mp) == Len(h) <= mp

\* len(hist) < min_periods: the row is skipped
below_min_periods(h, mp) == Len(h) < mp

\* mutant: the slice runs one row past t
hist_at_lookahead(s, ix, win) ==
    IF IsNone(win) THEN dropna(iloc(s, 0, ix + 2))
    ELSE LET start == Max(0, ix - Get(win) + 1)
         IN  dropna(iloc(s, start, ix + 2))

\* the historical window of row ix (0-based): rolling, or expanding if None
hist_at(s, ix, win) ==
    IF IsNone(win) THEN dropna(iloc(s, 0, ix + 1))
    ELSE LET start == Max(0, ix - Get(win) + 1)
         IN  dropna(iloc(s, start, ix + 1))

\* mutant: the history is ranked without clipping
winsorize_off(h, lq, uq) == h

\* winsorisation of the history
winsorize(h, lq, uq) ==
    IF ~IsNone(lq) /\ ~IsNone(uq)
    THEN LET q_low == quantile(h, Get(lq))
             q_high == quantile(h, Get(uq))
         IN  clipSeries(h, q_low, q_high)
    ELSE h

\* mutant: the inverted score is taken from the unscaled rank
score_of_unscaled_invert(h, inv, lq, uq) ==
    LET rank == rank_pct_last(winsorize(h, lq, uq))
        score == Mul(rank, Float(100))
    IN  IF inv THEN Sub(Float(100), rank) ELSE score

\* score of a row that passed the warm-up test
score_of(h, inv, lq, uq) ==
    LET rank == rank_pct_last(winsorize(h, lq, uq))
        score == Mul(rank, Float(100))
    IN  IF inv THEN Sub(Float(100), score) ELSE score

\* the branch the loop body takes for row ix (0-based).
\* hist.rank(pct=True).iloc[-1] on an empty history is an IndexError.
loop_branch(s, ix, mp, win) ==
    LET val == s[ix + 1]
        h == hist_at(s, ix, win)
    IN  IF val_is_missing(val) THEN "continue_missing"
        ELSE IF below_min_periods(h, mp) THEN "continue_warmup"
        ELSE IF Len(h) = 0 THEN "raise"
        ELSE "score"

\* the value one pass of the loop body leaves in scores at row ix
score_at(s, ix, inv, mp, win, lq, uq) ==
    IF loop_branch(s, ix, mp, win) = "score"
    THEN score_of(hist_at(s, ix, win), inv, lq, uq)
    ELSE NaN

\* the whole call
percentile_score(s, inv, mp, win, lq, uq) ==
    [k \in 1..Len(s) |-> score_at(s, k - 1, inv, mp, win, lq, uq)]

(***************************************************************************)
(* Inputs of the model.                                                    *)
(***************************************************************************)
RawValues == {NaN, Float(0), Float(1), Float(2)}

RECURSIVE SeqsUpTo(_, _)
SeqsUpTo(S, n) ==
    IF n = 0 THEN {<<>>}
    ELSE LET shorter == SeqsUpTo(S, n - 1)
         IN  shorter \cup {Append(s, x) : s \in {t \in shorter : Len(t) = n - 1}, x \in S}

SeriesInputs == {s \in SeqsUpTo(RawValues, MaxLen) : Len(s) >= 1}

MinPeriodsInputs == 1..MaxMinPeriods
\* a rolling window is at least as long as the warm-up, as with the defaults
WindowInputs == {None} \cup {Some(w) : w \in MaxMinPeriods..MaxWindow}

\* (lower_q, upper_q): the defaults of the code, a narrow band that clips two
\* values on each side of a four-value history, and winsorisation switched off
QuantileInputs ==
    { <<Some(Rat(1, 100)), Some(Rat(99, 100))>>,
      <<Some(Rat(2, 5)), Some(Rat(3, 5))>>,
      <<None, None>> }

(***************************************************************************)
(* compute_fear_greed                                                      *)
(* A table (DataFrame) is [nrows, cols]: the length of its index and a     *)
(* function from column name to series.                                    *)
(***************************************************************************)
FG_COMPONENT_SPECS ==
    << <<"momentum_spx", FALSE>>,
       <<"strength_proxy", FALSE>>,
       <<"breadth_rsp_spx", FALSE>>,
       <<"safe_haven_20d", FALSE>>,
       <<"junk_bond_mom_20d", FALSE>>,
       <<"put_call", TRUE>>,
       <<"hy_spread", TRUE>>,
       <<"vix_rel", TRUE>> >>

\* the keys of dict(FG_COMPONENT_SPECS)
spec_names == {FG_COMPONENT_SPECS[k][1] : k \in 1..Len(FG_COMPONENT_SPECS)}

\* a sum of floats over the names S of a row
RECURSIVE RatSum(_, _)
RatSum(f, S) ==
    IF S = {} THEN Float(0)
    ELSE LET c == CHOOSE x \in S : TRUE
         IN  Add(f[c], RatSum(f, S \ {c}))

\* scores = pd.DataFrame(index=components.index)
empty_scores(comp) == [nrows |-> comp.nrows, cols |-> <<>>]

\* scores[name] = column
with_column(tbl, name, column) == [tbl EXCEPT !.cols = (name :> column) @@ tbl.cols]

\* comp_cols: the score columns that are known components
comp_cols_of(tbl) == {c \in DOMAIN tbl.cols : c \in spec_names}

\* mutant: a missing score counts as zero in the mean
row_mean_fillna(tbl, cols, r) ==
    IF cols = {} THEN NaN
    ELSE LET filled == [c \in cols |-> IF isna(tbl.cols[c][r]) THEN Float(0) ELSE tbl.cols[c][r]]
         IN  Div(RatSum(filled, cols), Cardinality(cols))

\* scores[comp_cols].mean(axis=1) at row r: missing values are skipped, and a row
\* with nothing left is missing
row_mean(tbl, cols, r) ==
    LET present == {c \in cols : ~isna(tbl.cols[c][r])}
    IN  IF present = {} THEN NaN
        ELSE Div(RatSum([c \in present |-> tbl.cols[c][r]], present), Cardinality(present))

\* w: the weight map restricted to the keys that are score columns
restrict_weights(w, cols) == [k \in {x \in DOMAIN w : x \in cols} |-> w[k]]

\* mutant: the intercept is left out
row_calibrated_no_intercept(tbl, w, icpt, r) ==
    LET present == {c \in DOMAIN w : ~isna(tbl.cols[c][r])}
    IN  RatSum([c \in present |-> Mul(tbl.cols[c][r], w[c])], present)

\* intercept + (scores[w.index] * w).sum(axis=1) at row r: the sum skips missing
\* products and is 0 when nothing is left
row_calibrated(tbl, w, icpt, r) ==
    LET present == {c \in DOMAIN w : ~isna(tbl.cols[c][r])}
    IN  Add(icpt, RatSum([c \in present |-> Mul(tbl.cols[c][r], w[c])], present))

\* the invert flag FG_COMPONENT_SPECS gives a component name
invert_of(name) ==
    LET k == CHOOSE j \in 1..Len(FG_COMPONENT_SPECS) : FG_COMPONENT_SPECS[j][1] = name
    IN  FG_COMPONENT_SPECS[k][2]

\* the score table after the loop over FG_COMPONENT_SPECS
scored_table(comp, mp, win, lq, uq) ==
    [nrows |-> comp.nrows,
     cols |-> [c \in {n \in spec_names : n \in DOMAIN comp.cols} |->
                  percentile_score(comp.cols[c], invert_of(c), mp, win, lq, uq)]]

\* the whole call: the returned pair (scores, name)
compute_fear_greed(comp, mp, win, lq, uq, wts, icpt) ==
    LET sc == scored_table(comp, mp, win, lq, uq)
        comp_cols == comp_cols_of(sc)
        rows == 1..sc.nrows
    IN  IF comp_cols = {}
        THEN [scores |-> with_column(sc, "FG_est", [r \in rows |-> NaN]),
              name |-> "FG_est"]
        ELSE IF IsNone(wts)
        THEN [scores |-> with_column(sc, "FG_est_mean",
                             [r \in rows |-> row_mean(sc, comp_cols, r)]),
              name |-> "FG_est_mean"]
        ELSE LET w == restrict_weights(Get(wts), comp_cols)
             IN  [scores |-> with_column(sc, "FG_est_cal",
                                 [r \in rows |-> row_calibrated(sc, w, icpt, r)]),
                  name |-> "FG_est_cal"]

(***************************************************************************)
(* Inputs of compute_fear_greed.                                           *)
(***************************************************************************)
FGValues == {NaN, Float(0), Float(1)}

RECURSIVE SeqsOfLen(_, _)
SeqsOfLen(S, n) ==
    IF n = 0 THEN {<<>>}
    ELSE {Append(s, x) : s \in SeqsOfLen(S, n - 1), x \in S}

\* a column is absent (None) or holds a series
ColumnInputs(n) == {None} \cup {Some(s) : s \in SeqsOfLen(FGValues, n)}

\* put_call is absent, entirely missing (the optional raw series was not
\* available) or rising
PutCallInputs(n) ==
    {None, Some([k \in 1..n |-> NaN]), Some([k \in 1..n |-> Float(k)])}

\* a column that is no component: absent or present
OtherInputs(n) == {None, Some([k \in 1..n |-> Float(1)])}

table_of(n, ms, vix, pcr, other) ==
    LET given == [momentum_spx |-> ms, vix_rel |-> vix, put_call |-> pcr, volume |-> other]
        names == {c \in DOMAIN given : ~IsNone(given[c])}
    IN  [nrows |-> n, cols |-> [c \in names |-> Get(given[c])]]

ComponentInputs ==
    {table_of(FGRows, ms, vix, pcr, other) :
        ms \in ColumnInputs(FGRows), vix \in ColumnInputs(FGRows),
        pcr \in PutCallInputs(FGRows), other \in OtherInputs(FGRows)}

\* (weights, intercept): the simple mean; the example of the specification; a
\* map with a negative weight and a key that is no component; a map keyed by
\* the prefixed names, which shares no key with the score columns; a map
\* calibrated on one component only
ModelInputs ==
    { <<None, Float(0)>>,
      <<Some([momentum_spx |-> Rat(1, 2), vix_rel |-> Rat(1, 2)]), Float(10)>>,
      <<Some([momentum_spx |-> Float(1), put_call |-> Float(0 - 1), sentiment |-> Float(2)]), Float(0)>>,
      <<Some([score_momentum_spx |-> Float(1)]), Float(5)>>,
      <<Some([momentum_spx |-> Float(1)]), Float(0)>> }

(***************************************************************************)
(* compute_fear_greed as a process: the loop over FG_COMPONENT_SPECS, then  *)
(* the aggregation.                                                        *)
(***************************************************************************)
cur_name == FG_COMPONENT_SPECS[fg_k + 1][1]
cur_invert == FG_COMPONENT_SPECS[fg_k + 1][2]

FG_SkipColumn ==
    /\ pc = "fg_loop"
    /\ fg_k < Len(FG_COMPONENT_SPECS)
    /\ cur_name \notin DOMAIN components.cols
    /\ fg_k' = fg_k + 1
    /\ UNCHANGED <<pc, psVars, cfgVars, ccVars, components, weights, intercept, fg_scores, fg_name, geVars, apiVars,
                   svcVars>>

FG_ScoreColumn ==
    /\ pc = "fg_loop"
    /\ fg_k < Len(FG_COMPONENT_SPECS)
    /\ cur_name \in DOMAIN components.cols
    /\ fg_scores' = with_column(fg_scores, cur_name,
                        percentile_score(components.cols[cur_name], cur_invert,
                                         min_periods, window, lower_q, upper_q))
    /\ fg_k' = fg_k + 1
    /\ UNCHANGED <<pc, psVars, cfgVars, ccVars, components, weights, intercept, fg_name, geVars, apiVars,
                   svcVars>>

FG_NoComponents ==
    /\ pc = "fg_loop"
    /\ fg_k = Len(FG_COMPONENT_SPECS)
    /\ comp_cols_of(fg_scores) = {}
    /\ fg_scores' = with_column(fg_scores, "FG_est", [r \in 1..fg_scores.nrows |-> NaN])
    /\ fg_name' = "FG_est"
    /\ pc' = "fg_done"
    /\ UNCHANGED <<psVars, cfgVars, ccVars, components, weights, intercept, fg_k, geVars, apiVars,
                   svcVars>>

FG_Mean ==
    /\ pc = "fg_loop"
    /\ fg_k = Len(FG_COMPONENT_SPECS)
    /\ comp_cols_of(fg_scores) # {}
    /\ IsNone(weights)
    /\ fg_scores' = with_column(fg_scores, "FG_est_mean",
                        [r \in 1..fg_scores.nrows |->
                            row_mean(fg_scores, comp_cols_of(fg_scores), r)])
    /\ fg_name' = "FG_est_mean"
    /\ pc' = "fg_done"
    /\ UNCHANGED <<psVars, cfgVars, ccVars, components, weights, intercept, fg_k, geVars, apiVars,
                   svcVars>>

FG_Calibrated ==
    /\ pc = "fg_loop"
    /\ fg_k = Len(FG_COMPONENT_SPECS)
    /\ comp_cols_of(fg_scores) # {}
    /\ ~IsNone(weights)
    /\ LET w == restrict_weights(Get(weights), comp_cols_of(fg_scores))
       IN  fg_scores' = with_column(fg_scores, "FG_est_cal",
                            [r \in 1..fg_scores.nrows |->
                                row_calibrated(fg_scores, w, intercept, r)])
    /\ fg_name' = "FG_est_cal"
    /\ pc' = "fg_done"
    /\ UNCHANGED <<psVars, cfgVars, ccVars, components, weights, intercept, fg_k, geVars, apiVars,
                   svcVars>>

(***************************************************************************)
(* compute_components                                                      *)
(***************************************************************************)
\* the alias lists of the five required raw series
aliases ==
    [spx |-> <<"spx", "^GSPC">>,
     vix |-> <<"vix", "^VIX">>,
     tlt |-> <<"tlt", "TLT">>,
     rsp |-> <<"rsp", "RSP">>,
     hyg |-> <<"hyg", "HYG">>]

\* the keys of the dict the missing list is built from, in its order
required == <<"spx", "vix", "tlt", "rsp", "hyg">>

\* _pick_col: the first candidate that is a column of the panel, or None
pick_col(candidates, columns) ==
    LET hits == {k \in 1..Len(candidates) : candidates[k] \in columns}
    IN  IF hits = {} THEN None
        ELSE Some(candidates[CHOOSE k \in hits : \A j \in hits : k <= j])

\* mutant: the list stops at the first missing series
missing_required_first(columns) ==
    LET all == SelectSeq(required, LAMBDA n : IsNone(pick_col(aliases[n], columns)))
    IN  IF Len(all) = 0 THEN all ELSE <<Head(all)>>

\* missing: the required series none of whose aliases is a column
missing_required(columns) ==
    SelectSeq(required, LAMBDA n : IsNone(pick_col(aliases[n], columns)))

\* pd.to_numeric(df[col], errors="coerce").astype(float) of a required series;
\* the cells of the panel are floats or missing and pass unchanged
typed(df, name) == df.cols[Get(pick_col(aliases[name], DOMAIN df.cols))]

\* sum of the non-missing values of rows a..b
RECURSIVE SumValid(_, _, _)
SumValid(s, a, b) ==
    IF a > b THEN Float(0)
    ELSE IF a = b THEN (IF s[a].nan THEN Float(0) ELSE s[a])
    ELSE LET m == (a + b) \div 2
         IN  Add(SumValid(s, a, m), SumValid(s, m + 1, b))

\* s.rolling(w, min_periods=mp).mean() at row t (1-based)
rolling_mean_at(s, w, mp, t) ==
    LET a == Max(1, t - w + 1)
        n == Cardinality({k \in a..t : ~s[k].nan})
    IN  IF n < mp THEN NaN ELSE Div(SumValid(s, a, t), n)

\* Series.ffill() at row t: the last non-missing value at or before t
RECURSIVE ffill_at(_, _)
ffill_at(s, t) ==
    IF t < 1 THEN NaN
    ELSE IF ~s[t].nan THEN s[t]
    ELSE ffill_at(s, t - 1)

\* mutant: the shift runs forward in time
shifted_row_ahead(n, t) == t + n

\* the row that s.shift(n) brings to row t
shifted_row(n, t) == t - n

\* s.pct_change(n) at row t: data / data.shift(n) - 1, where data is s
\* forward-filled (fill_method="pad") or s itself (fill_method=None)
pct_change_at(s, n, fill, t) ==
    LET from == shifted_row(n, t)
        cur == IF fill = "pad" THEN ffill_at(s, t) ELSE s[t]
        prev == IF from < 1 \/ from > Len(s) THEN NaN
                ELSE IF fill = "pad" THEN ffill_at(s, from) ELSE s[from]
    IN  Sub(TrueDiv(cur, prev), Float(1))

\* (s - ma) / ma at row t
rel_to_mean_at(s, w, mp, t) ==
    LET ma == rolling_mean_at(s, w, mp, t)
    IN  TrueDiv(Sub(s[t], ma), ma)

\* mutant: an absent optional series is filled with zero
optional_at_zero(df, raw, t) ==
    IF raw \in DOMAIN df.cols THEN df.cols[raw][t] ELSE Float(0)

\* pd.to_numeric(df[raw], errors="coerce") if raw in df.columns else np.nan
optional_at(df, raw, t) ==
    IF raw \in DOMAIN df.cols THEN df.cols[raw][t] ELSE NaN

\* the component columns in the order they are written
component_order ==
    <<"momentum_spx", "strength_proxy", "breadth_rsp_spx", "junk_bond_mom_20d",
      "hy_spread", "vix_rel", "safe_haven_20d", "put_call">>

\* the value of a component at row t
component_at(df, name, fill, t) ==
    CASE name = "momentum_spx" -> rel_to_mean_at(typed(df, "spx"), 125, 60, t)
      [] name = "strength_proxy" -> rel_to_mean_at(typed(df, "spx"), 200, 80, t)
      [] name = "breadth_rsp_spx" ->
             Sub(pct_change_at(typed(df, "rsp"), 60, fill, t),
                 pct_change_at(typed(df, "spx"), 60, fill, t))
      [] name = "junk_bond_mom_20d" -> pct_change_at(typed(df, "hyg"), 20, fill, t)
      [] name = "hy_spread" -> optional_at(df, "HY_spread", t)
      [] name = "vix_rel" -> rel_to_mean_at(typed(df, "vix"), 50, 20, t)
      [] name = "safe_haven_20d" ->
             Sub(pct_change_at(typed(df, "spx"), 20, fill, t),
                 pct_change_at(typed(df, "tlt"), 20, fill, t))
      [] name = "put_call" -> optional_at(df, "put_call", t)

\* out[name] = ...
component_column(df, name, fill) ==
    [t \in 1..df.nrows |-> component_at(df, name, fill, t)]

\* the KeyError: the missing required series and the columns of the panel
missing_series_error(df) ==
    [missing |-> missing_required(DOMAIN df.cols), available |-> DOMAIN df.cols]

\* the whole call: it raises, or returns the component table
compute_components(df, fill) ==
    IF Len(missing_required(DOMAIN df.cols)) > 0
    THEN [raised |-> TRUE, error |-> Some(missing_series_error(df)),
          out |-> [nrows |-> 0, cols |-> <<>>]]
    ELSE [raised |-> FALSE, error |-> None,
          out |-> [nrows |-> df.nrows,
                   cols |-> [c \in {component_order[k] : k \in 1..Len(component_order)} |->
                                component_column(df, c, fill)]]]

(***************************************************************************)
(* Inputs of compute_components.                                           *)
(***************************************************************************)
\* the column names a panel may hold
RawNames ==
    {"spx", "^GSPC", "vix", "^VIX", "tlt", "TLT", "rsp", "RSP", "hyg", "HYG",
     "HY_spread", "put_call"}

\* a level that tells the columns apart: the position of the name in a fixed
\* order plus the row
name_rank(c) ==
    CASE c \in {"spx", "^GSPC"} -> 1
      [] c \in {"vix", "^VIX"} -> 2
      [] c \in {"tlt", "TLT"} -> 3
      [] c \in {"rsp", "RSP"} -> 4
      [] c \in {"hyg", "HYG"} -> 5
      [] c = "HY_spread" -> 6
      [] c = "put_call" -> 7

\* short panels with any set of columns
PresenceInputs ==
    {[nrows |-> ShortRows,
      cols |-> [c \in names |-> [k \in 1..ShortRows |-> Float(name_rank(c) + k)]]] :
        names \in SUBSET RawNames}

\* a level at row k: rising, falling or a wave, by column and scenario
level(c, scn, k) ==
    CASE c = "spx" -> IF scn = 1 THEN 100 + k ELSE 100 + ((k * k) % 7)
      [] c = "vix" -> IF scn = 1 THEN 20 + (k % 5) ELSE 20
      [] c = "tlt" -> 400 - k
      [] c = "rsp" -> IF scn = 1 THEN 50 + ((3 * k) % 11) ELSE 50 + 2 * k
      [] c = "hyg" -> 80 + (k % 3)
      [] c = "HY_spread" -> 3 + (k % 4)
      [] c = "put_call" -> 1 + (k % 2)

\* a row without a quote in the middle of the panel
GapRow == 150

\* long panels as build_raw_indicators assembles them: the short names, lead
\* rows before the first quote, and optionally a gap
long_panel(scn, lead, gap, optional) ==
    [nrows |-> LongRows,
     cols |-> [c \in {"spx", "vix", "tlt", "rsp", "hyg"} \cup optional |->
                  [k \in 1..LongRows |->
                      IF k <= lead \/ (gap /\ k = GapRow /\ c \in {"spx", "hyg", "put_call"})
                      THEN NaN ELSE Float(level(c, scn, k))]]]

LongInputs ==
    {long_panel(scn, lead, gap, optional) :
        scn \in {1, 2}, lead \in {0, 2}, gap \in BOOLEAN,
        optional \in SUBSET {"HY_spread", "put_call"}}

PanelInputs == PresenceInputs \cup LongInputs

\* Series.pct_change forward-fills gaps by default before pandas 3 and leaves
\* them from pandas 3 on
FillInputs == {"pad", "none"}

(***************************************************************************)
(* compute_components as a process: alias resolution, then one column at a *)
(* time.                                                                   *)
(***************************************************************************)
CC_Raise ==
    /\ pc = "cc_start"
    /\ Len(missing_required(DOMAIN cc_df.cols)) > 0
    /\ cc_error' = Some(missing_series_error(cc_df))
    /\ pc' = "cc_raised"
    /\ UNCHANGED <<psVars, cfgVars, fgVars, cc_df, cc_fill, cc_k, cc_out, geVars, apiVars,
                   svcVars>>

CC_Resolved ==
    /\ pc = "cc_start"
    /\ Len(missing_required(DOMAIN cc_df.cols)) = 0
    /\ cc_out' = [nrows |-> cc_df.nrows, cols |-> <<>>]
    /\ pc' = "cc_derive"
    /\ UNCHANGED <<psVars, cfgVars, fgVars, cc_df, cc_fill, cc_k, cc_error, geVars, apiVars,
                   svcVars>>

CC_Derive ==
    /\ pc = "cc_derive"
    /\ cc_k < Len(component_order)
    /\ cc_out' = with_column(cc_out, component_order[cc_k + 1],
                     component_column(cc_df, component_order[cc_k + 1], cc_fill))
    /\ cc_k' = cc_k + 1
    /\ UNCHANGED <<pc, psVars, cfgVars, fgVars, cc_df, cc_fill, cc_error, geVars, apiVars,
                   svcVars>>

CC_Return ==
    /\ pc = "cc_derive"
    /\ cc_k = Len(component_order)
    /\ pc' = "cc_done"
    /\ UNCHANGED <<psVars, cfgVars, fgVars, ccVars, geVars, apiVars, svcVars>>

PSIdle ==
    /\ series = <<>>
    /\ invert = FALSE
    /\ i = 0
    /\ scores = <<>>

FGIdle ==
    /\ components = [nrows |-> 0, cols |-> <<>>]
    /\ weights = None
    /\ intercept = Float(0)
    /\ fg_k = 0
    /\ fg_scores = [nrows |-> 0, cols |-> <<>>]
    /\ fg_name = ""

CCIdle ==
    /\ cc_df = [nrows |-> 0, cols |-> <<>>]
    /\ cc_fill = "pad"
    /\ cc_k = 0
    /\ cc_out = [nrows |-> 0, cols |-> <<>>]
    /\ cc_error = None

CfgIdle ==
    /\ min_periods = 1
    /\ window = None
    /\ lower_q = None
    /\ upper_q = None

\* a call of compute_components
InitCC ==
    /\ pc = "cc_start"
    /\ cc_df \in PanelInputs
    /\ cc_fill \in FillInputs
    /\ cc_k = 0
    /\ cc_out = [nrows |-> 0, cols |-> <<>>]
    /\ cc_error = None
    /\ CfgIdle

NextCC == CC_Raise \/ CC_Resolved \/ CC_Derive \/ CC_Return

(***************************************************************************)
(* get_fgi_estimation (fg_core.py)                                         *)
(* A date is a day number: the date of row k of the fetched panel is k.    *)
(* A returned table is [index, cols]: the dates of its rows and a function *)
(* from column name to the values of those rows.                           *)
(***************************************************************************)
\* pd.DateOffset(years=1), in days
OneYear == 365

\* end_ts
resolve_end(end_date, today) == IF IsNone(end_date) THEN today ELSE Get(end_date)

\* start_ts
resolve_start(start_date, end_ts) ==
    IF IsNone(start_date) THEN end_ts - OneYear ELSE Get(start_date)

\* f"score_{i}" for the i-th coefficient (1-based here)
default_feature(k) == "score_" \o ToString(k - 1)

\* col.replace(old, new): every occurrence of old, met from the left and
\* without overlap, becomes new
RECURSIVE replace(_, _, _)
replace(col, old, new) ==
    IF Len(col) < Len(old) THEN col
    ELSE IF SubSeq(col, 1, Len(old)) = old
    THEN new \o replace(SubSeq(col, Len(old) + 1, Len(col)), old, new)
    ELSE SubSeq(col, 1, 1) \o replace(SubSeq(col, 2, Len(col)), old, new)

\* base = col.replace("score_", "")
strip_score(col) == replace(col, "score_", "")

\* load_model of fg_core: open() raises when the file is absent; otherwise
\* the weights keyed by the stripped feature names, a later name overriding
\* an earlier one with the same key, and the intercept
load_model(file) ==
    IF IsNone(file)
    THEN [raised |-> TRUE, weights |-> None, intercept |-> Float(0)]
    ELSE LET model == Get(file)
             feature_names ==
                 IF IsNone(model.feature_names_in_)
                 THEN [k \in 1..Len(model.coef_) |-> default_feature(k)]
                 ELSE Get(model.feature_names_in_)
             ks == 1..Len(feature_names)
             bases == {strip_score(feature_names[k]) : k \in ks}
             last(b) == CHOOSE k \in ks :
                            /\ strip_score(feature_names[k]) = b
                            /\ \A j \in ks : strip_score(feature_names[j]) = b => j <= k
         IN  [raised |-> FALSE,
              weights |-> Some([b \in bases |-> model.coef_[last(b)]]),
              intercept |-> model.intercept_]

\* DataFrame.add_prefix on a column name
add_prefix(prefix, c) == prefix \o c

\* scores[fg_col_name].rename("FG_estimation")
renamed(fg_col_name) == "FG_estimation"

\* the columns of pd.concat([components.add_prefix("raw_"), score_cols, fg_like])
concat_columns(comp, scored) ==
    LET score_cols == DOMAIN scored.scores.cols \ {scored.name}
        raw == [nm \in {add_prefix("raw_", c) : c \in DOMAIN comp.cols} |->
                   comp.cols[CHOOSE c \in DOMAIN comp.cols : add_prefix("raw_", c) = nm]]
        scr == [nm \in {add_prefix("score_", c) : c \in score_cols} |->
                   scored.scores.cols[CHOOSE c \in score_cols : add_prefix("score_", c) = nm]]
    IN  raw @@ scr @@ (renamed(scored.name) :> scored.scores.cols[scored.name])

\* mutant: the rows without a composite are kept
has_composite_always(full, r) == TRUE

\* dropna(subset=["FG_estimation"]): the row is kept
has_composite(full, r) == ~full["FG_estimation"][r].nan

\* (index >= start_ts) & (index <= end_ts)
in_span(r, start_ts, end_ts) == r >= start_ts /\ r <= end_ts

\* lines 90-101: the table get_fgi_estimation returns
assemble(comp, scored, start_ts, end_ts, with_components) ==
    LET full == concat_columns(comp, scored)
        rows == [k \in 1..comp.nrows |-> k]
        dropped == SelectSeq(rows, LAMBDA r : has_composite(full, r))
        kept == SelectSeq(dropped, LAMBDA r : in_span(r, start_ts, end_ts))
        names == IF with_components THEN DOMAIN full ELSE {"FG_estimation"}
    IN  [index |-> kept,
         cols |-> [nm \in names |-> [k \in 1..Len(kept) |-> full[nm][kept[k]]]]]

\* a call that returned no table
NoTable == [index |-> <<>>, cols |-> <<>>]

\* weights, intercept = None, 0.0
NoModel == [raised |-> FALSE, weights |-> None, intercept |-> Float(0)]

\* the whole call: the exception that ends it ("" if none) and the table
get_fgi_estimation(req, env) ==
    LET end_ts == resolve_end(req.end_date, env.today)
        start_ts == resolve_start(req.start_date, end_ts)
        loaded == IF req.use_calibrated_model THEN load_model(env.model_file) ELSE NoModel
    IN  IF loaded.raised THEN [error |-> "FileNotFoundError", table |-> NoTable]
        ELSE IF IsNone(env.raw) THEN [error |-> "RuntimeError", table |-> NoTable]
        ELSE LET cc == compute_components(Get(env.raw), env.fill)
             IN  IF cc.raised THEN [error |-> "KeyError", table |-> NoTable]
                 ELSE LET scored == compute_fear_greed(cc.out, req.min_periods, req.window,
                                        req.lower_q, req.upper_q,
                                        loaded.weights, loaded.intercept)
                      IN  [error |-> "",
                           table |-> assemble(cc.out, scored, start_ts, end_ts,
                                              req.with_components)]

(***************************************************************************)
(* Inputs of get_fgi_estimation.                                           *)
(***************************************************************************)
\* the date of the last fetched row
Today == OrchRows

StartInputs == {None, Some(5), Some(OrchRows - 2)}
EndInputs == {None, Some(OrchRows - 1), Some(OrchRows + 7)}

RequestInputs ==
    [start_date : StartInputs, end_date : EndInputs,
     with_components : BOOLEAN, use_calibrated_model : BOOLEAN,
     min_periods : MinPeriodsInputs, window : {None, Some(MaxWindow)},
     lower_q : {Some(Rat(1, 100))}, upper_q : {Some(Rat(99, 100))}]

\* the pickled model: absent; fitted on two score columns; fitted on an array
\* without feature names
ModelFileInputs ==
    { None,
      Some([intercept_ |-> Float(10), coef_ |-> <<Rat(1, 2), Rat(1, 2)>>,
            feature_names_in_ |-> Some(<<"score_vix_rel", "score_junk_bond_mom_20d">>)]),
      Some([intercept_ |-> Float(50), coef_ |-> <<Float(1)>>,
            feature_names_in_ |-> None]) }

\* levels whose 20-row returns are whole numbers from row 21 on: flat for
\* 20 rows, then moving
orch_level(c, k) ==
    CASE c = "spx" -> IF k <= 20 THEN 1 ELSE k - 19
      [] c = "vix" -> 10
      [] c = "tlt" -> 1
      [] c = "rsp" -> 1
      [] c = "hyg" -> IF k <= 20 THEN 2 ELSE 2 * (1 + ((k * k) % 3))
      [] c = "HY_spread" -> 3 + (k % 4)
      [] c = "put_call" -> 1 + (k % 2)

\* a fetched panel of OrchRows business days
orch_panel(names) ==
    [nrows |-> OrchRows,
     cols |-> [c \in names |-> [k \in 1..OrchRows |-> Float(orch_level(c, k))]]]

\* what build_raw_indicators delivers: nothing (it raises), the market series
\* alone, with both FRED series, or without the high-yield proxy
RawInputs ==
    { None,
      Some(orch_panel({"spx", "vix", "tlt", "rsp", "hyg"})),
      Some(orch_panel({"spx", "vix", "tlt", "rsp", "hyg", "HY_spread", "put_call"})),
      Some(orch_panel({"spx", "vix", "tlt", "rsp", "put_call"})) }

EnvInputs ==
    [today : {Today}, model_file : ModelFileInputs, raw : RawInputs, fill : FillInputs]

(***************************************************************************)
(* get_fgi_estimation as a process.                                        *)
(***************************************************************************)
GE_Dates ==
    /\ pc = "ge_start"
    /\ ge_end_ts' = resolve_end(ge_req.end_date, ge_env.today)
    /\ ge_start_ts' = resolve_start(ge_req.start_date, ge_end_ts')
    /\ pc' = "ge_model"
    /\ UNCHANGED <<psVars, cfgVars, fgVars, ccVars, ge_req, ge_env, ge_model,
                   ge_components, ge_scored, ge_result, ge_error, apiVars, svcVars>>

GE_LoadModel ==
    /\ pc = "ge_model"
    /\ ge_req.use_calibrated_model
    /\ ~load_model(ge_env.model_file).raised
    /\ ge_model' = load_model(ge_env.model_file)
    /\ pc' = "ge_raw"
    /\ UNCHANGED <<psVars, cfgVars, fgVars, ccVars, ge_req, ge_env, ge_start_ts, ge_end_ts,
                   ge_components, ge_scored, ge_result, ge_error, apiVars, svcVars>>

GE_LoadModelRaise ==
    /\ pc = "ge_model"
    /\ ge_req.use_calibrated_model
    /\ load_model(ge_env.model_file).raised
    /\ ge_error' = "FileNotFoundError"
    /\ pc' = "ge_raised"
    /\ UNCHANGED <<psVars, cfgVars, fgVars, ccVars, ge_req, ge_env, ge_start_ts, ge_end_ts,
                   ge_model, ge_components, ge_scored, ge_result, apiVars, svcVars>>

GE_NoModel ==
    /\ pc = "ge_model"
    /\ ~ge_req.use_calibrated_model
    /\ ge_model' = NoModel
    /\ pc' = "ge_raw"
    /\ UNCHANGED <<psVars, cfgVars, fgVars, ccVars, ge_req, ge_env, ge_start_ts, ge_end_ts,
                   ge_components, ge_scored, ge_result, ge_error, apiVars, svcVars>>

GE_BuildRaw ==
    /\ pc = "ge_raw"
    /\ ~IsNone(ge_env.raw)
    /\ pc' = "ge_components"
    /\ UNCHANGED <<psVars, cfgVars, fgVars, ccVars, geVars, apiVars, svcVars>>

GE_BuildRawRaise ==
    /\ pc = "ge_raw"
    /\ IsNone(ge_env.raw)
    /\ ge_error' = "RuntimeError"
    /\ pc' = "ge_raised"
    /\ UNCHANGED <<psVars, cfgVars, fgVars, ccVars, ge_req, ge_env, ge_start_ts, ge_end_ts,
                   ge_model, ge_components, ge_scored, ge_result, apiVars, svcVars>>

GE_Components ==
    /\ pc = "ge_components"
    /\ ~compute_components(Get(ge_env.raw), ge_env.fill).raised
    /\ ge_components' = compute_components(Get(ge_env.raw), ge_env.fill).out
    /\ pc' = "ge_score"
    /\ UNCHANGED <<psVars, cfgVars, fgVars, ccVars, ge_req, ge_env, ge_start_ts, ge_end_ts,
                   ge_model, ge_scored, ge_result, ge_error, apiVars, svcVars>>

GE_ComponentsRaise ==
    /\ pc = "ge_components"
    /\ compute_components(Get(ge_env.raw), ge_env.fill).raised
    /\ ge_error' = "KeyError"
    /\ pc' = "ge_raised"
    /\ UNCHANGED <<psVars, cfgVars, fgVars, ccVars, ge_req, ge_env, ge_start_ts, ge_end_ts,
                   ge_model, ge_components, ge_scored, ge_result, apiVars, svcVars>>

GE_FearGreed ==
    /\ pc = "ge_score"
    /\ ge_scored' = compute_fear_greed(ge_components, ge_req.min_periods, ge_req.window,
                        ge_req.lower_q, ge_req.upper_q,
                        ge_model.weights, ge_model.intercept)
    /\ pc' = "ge_assemble"
    /\ UNCHANGED <<psVars, cfgVars, fgVars, ccVars, ge_req, ge_env, ge_start_ts, ge_end_ts,
                   ge_model, ge_components, ge_result, ge_error, apiVars, svcVars>>

GE_Return ==
    /\ pc = "ge_assemble"
    /\ ge_result' = assemble(ge_components, ge_scored, ge_start_ts, ge_end_ts,
                             ge_req.with_components)
    /\ pc' = "ge_done"
    /\ UNCHANGED <<psVars, cfgVars, fgVars, ccVars, ge_req, ge_env, ge_start_ts, ge_end_ts,
                   ge_model, ge_components, ge_scored, ge_error, apiVars, svcVars>>

IdleRequest ==
    [start_date |-> None, end_date |-> None, with_components |-> FALSE,
     use_calibrated_model |-> FALSE, min_periods |-> 1, window |-> None,
     lower_q |-> None, upper_q |-> None]

IdleEnv == [today |-> 0, model_file |-> None, raw |-> None, fill |-> "pad"]

GELocalsInit ==
    /\ ge_start_ts = 0
    /\ ge_end_ts = 0
    /\ ge_model = NoModel
    /\ ge_components = [nrows |-> 0, cols |-> <<>>]
    /\ ge_scored = [scores |-> [nrows |-> 0, cols |-> <<>>], name |-> ""]
    /\ ge_result = NoTable
    /\ ge_error = ""

GEIdle ==
    /\ ge_req = IdleRequest
    /\ ge_env = IdleEnv
    /\ GELocalsInit

\* a call of get_fgi_estimation
InitGE ==
    /\ pc = "ge_start"
    /\ ge_req \in RequestInputs
    /\ ge_env \in EnvInputs
    /\ GELocalsInit
    /\ CfgIdle
    /\ CCIdle

NextGE ==
    \/ GE_Dates \/ GE_LoadModel \/ GE_LoadModelRaise \/ GE_NoModel
    \/ GE_BuildRaw \/ GE_BuildRawRaise \/ GE_Components \/ GE_ComponentsRaise
    \/ GE_FearGreed \/ GE_Return

(***************************************************************************)
(* The cache directory and get_fgi_series                                  *)
(* (deploy/services/fgi_service.py).  A cache is a function from file name *)
(* to [readable, frame]: the files of CACHE_DIR and what pd.read_parquet   *)
(* makes of each.  The directory itself may not exist yet.                 *)
(***************************************************************************)
\* min_periods: int = 252
DefaultMinPeriods == 252

\* window: int | None = 1260
DefaultWindow == 1260

RANGE_PRESETS ==
    [r \in {"1M", "3M", "6M", "1Y", "5Y", "MAX"} |->
        CASE r = "1M" -> Some(30)
          [] r = "3M" -> Some(90)
          [] r = "6M" -> Some(180)
          [] r = "1Y" -> Some(365)
          [] r = "5Y" -> Some(1825)
          [] r = "MAX" -> None]

\* datetime(2000, 1, 1) as a day number: five years before history_start
\* ("2005-01-01"), which no fetched row precedes
Date2000 == 1 - 5 * OneYear

\* os.makedirs(CACHE_DIR, exist_ok=True): the directory exists afterwards
ensure_cache_dir(dir) == TRUE

\* (start_date, end_date); range names reach it in upper case (Query regex)
get_range_dates(range_name, end_date, today) ==
    LET end_dt == IF IsNone(end_date) THEN today ELSE Get(end_date)
        days == RANGE_PRESETS[range_name]
        start_dt == IF IsNone(days) THEN Date2000 ELSE end_dt - Get(days)
    IN  <<start_dt, end_dt>>

\* int(flag)
int_of(flag) == IF flag THEN 1 ELSE 0

\* strftime('%Y-%m-%d') of a day number: a text of fixed width
strftime(d) ==
    IF d < 10 THEN "000" \o ToString(d)
    ELSE IF d < 100 THEN "00" \o ToString(d)
    ELSE IF d < 1000 THEN "0" \o ToString(d)
    ELSE ToString(d)

\* the file name f"fgi_{range_name}_{end_date}_components{..}_calib{..}.parquet"
build_cache_key(range_name, end_date, with_components, use_calibrated_model) ==
    "fgi_" \o range_name \o "_" \o strftime(end_date)
        \o "_components" \o ToString(int_of(with_components))
        \o "_calib" \o ToString(int_of(use_calibrated_model)) \o ".parquet"

\* None without a file or when the file cannot be read
read_cache(cache, key) ==
    IF key \in DOMAIN cache /\ cache[key].readable
    THEN Some(cache[key].frame)
    ELSE None

\* the file once df.to_parquet(path) has returned
write_cache(cache, key, df) ==
    [k \in DOMAIN cache \cup {key} |->
        IF k = key THEN [readable |-> TRUE, frame |-> df] ELSE cache[k]]

\* the file while df.to_parquet(path) is writing it: opened for writing, its
\* footer not yet there, so pd.read_parquet fails on it
partial_write(cache, key) ==
    [k \in DOMAIN cache \cup {key} |->
        IF k = key THEN [readable |-> FALSE, frame |-> NoTable] ELSE cache[k]]

\* the keyword arguments get_fgi_series passes, the others at their defaults
pipeline_request(start_date, end_date, with_components, use_calibrated_model) ==
    [start_date |-> Some(start_date), end_date |-> Some(end_date),
     with_components |-> with_components,
     use_calibrated_model |-> use_calibrated_model,
     min_periods |-> DefaultMinPeriods, window |-> Some(DefaultWindow),
     lower_q |-> Some(Rat(1, 100)), upper_q |-> Some(Rat(99, 100))]

\* the clock, model file and data sources as get_fgi_estimation sees them
pipeline_env(env) ==
    [today |-> env.today, model_file |-> env.model_file, raw |-> env.raw,
     fill |-> env.fill]

\* the arguments of a call get_fgi_series(range, end_date, with_components,
\* use_calibrated_model)
series_args(req) ==
    [range_name |-> req.range, end_date |-> req.end_date,
     with_components |-> req.with_components,
     use_calibrated_model |-> req.use_calibrated_model]

\* (start_date, end_date) of a call
dates_of(args, env) == get_range_dates(args.range_name, args.end_date, env.today)

\* key, line 55
key_of(args, env) ==
    build_cache_key(args.range_name, dates_of(args, env)[2],
                    args.with_components, args.use_calibrated_model)

\* the combination a frame is computed under: the range name, the resolved
\* end date and the two flags
combination(args, env) ==
    <<args.range_name, dates_of(args, env)[2],
      args.with_components, args.use_calibrated_model>>

\* a cache directory without files
EmptyCache == [k \in {} |-> k]

(***************************************************************************)
(* Calls of get_fgi_series.  The endpoints are plain functions, which the  *)
(* server runs on the threads of a pool: calls made for different requests *)
(* overlap, and nothing in get_fgi_series orders them.  Each call has its  *)
(* own position (stage):                                                   *)
(*   idle      no call                                                     *)
(*   called    lines 53-55 done, about to read the cache (line 56)         *)
(*   missed    read_cache returned None (line 57)                          *)
(*   running   get_fgi_estimation is running for it (line 58)              *)
(*   computed  the table is in hand (line 59), about to write (line 61)    *)
(*   writing   df.to_parquet has opened the file                           *)
(*   returned  line 62                                                     *)
(*   raised    get_fgi_estimation raised                                   *)
(* get_fgi_estimation touches nothing the calls share, so its steps (the   *)
(* GE actions, under pc) are taken for one call at a time.                 *)
(***************************************************************************)
\* the call made by the endpoint in hand
Handler == "h"

\* calls made for other requests, in the order they arrive
ClientOrder == <<"a", "b", "c">>

Clients == {ClientOrder[k] : k \in 1..Len(ClientOrder)}

Callers == {Handler} \cup Clients

IdleArgs ==
    [range_name |-> "1Y", end_date |-> None, with_components |-> FALSE,
     use_calibrated_model |-> TRUE]

IdleCall ==
    [stage |-> "idle", args |-> IdleArgs, df |-> None, error |-> "",
     promised |-> None, ran |-> FALSE]

\* the file of a call
call_key(c) == key_of(svc_proc[c].args, api_env)

\* another call is inside df.to_parquet on the same file
other_writer(c) ==
    \E o \in Callers \ {c} :
        svc_proc[o].stage = "writing" /\ call_key(o) = call_key(c)

\* lines 51-55: the call begins; the directory is made, the dates and the
\* key are resolved.  promised records the frame an earlier call computed
\* and wrote under the key, if any.
get_fgi_series(c, args) ==
    /\ svc_proc[c].stage = "idle"
    /\ api_dir' = ensure_cache_dir(api_dir)
    /\ svc_proc' = [svc_proc EXCEPT ![c] =
           [stage |-> "called", args |-> args, df |-> None, error |-> "",
            promised |-> IF key_of(args, api_env) \in DOMAIN svc_stored
                         THEN Some(svc_stored[key_of(args, api_env)].frame)
                         ELSE None,
            ran |-> FALSE]]

\* line 56: read_cache gave a frame, which the call returns (line 62)
SVC_Hit ==
    \E c \in Callers :
        /\ svc_proc[c].stage = "called"
        /\ ~IsNone(read_cache(api_cache, call_key(c)))
        /\ svc_proc' = [svc_proc EXCEPT ![c].stage = "returned",
                                        ![c].df = read_cache(api_cache, call_key(c))]
        /\ UNCHANGED <<pc, psVars, cfgVars, fgVars, ccVars, geVars, apiVars, mkt_proc, svc_stored>>

\* lines 56-57: read_cache gave None
SVC_Miss ==
    \E c \in Callers :
        /\ svc_proc[c].stage = "called"
        /\ IsNone(read_cache(api_cache, call_key(c)))
        /\ svc_proc' = [svc_proc EXCEPT ![c].stage = "missed"]
        /\ UNCHANGED <<pc, psVars, cfgVars, fgVars, ccVars, geVars, apiVars, mkt_proc, svc_stored>>

\* line 58: get_fgi_estimation is called, with fresh locals
SVC_Start ==
    \E c \in Callers :
        /\ svc_proc[c].stage = "missed"
        /\ pc = "svc"
        /\ ge_req' = pipeline_request(dates_of(svc_proc[c].args, api_env)[1],
                                      dates_of(svc_proc[c].args, api_env)[2],
                                      svc_proc[c].args.with_components,
                                      svc_proc[c].args.use_calibrated_model)
        /\ ge_env' = pipeline_env(api_env)
        /\ ge_start_ts' = 0
        /\ ge_end_ts' = 0
        /\ ge_model' = NoModel
        /\ ge_components' = [nrows |-> 0, cols |-> <<>>]
        /\ ge_scored' = [scores |-> [nrows |-> 0, cols |-> <<>>], name |-> ""]
        /\ ge_result' = NoTable
        /\ ge_error' = ""
        /\ pc' = "ge_start"
        /\ svc_proc' = [svc_proc EXCEPT ![c].stage = "running", ![c].ran = TRUE]
        /\ UNCHANGED <<psVars, cfgVars, fgVars, ccVars, apiVars, mkt_proc, svc_stored>>

\* lines 58-59: get_fgi_estimation returned its table
SVC_Result ==
    \E c \in Callers :
        /\ svc_proc[c].stage = "running"
        /\ pc = "ge_done"
        /\ svc_proc' = [svc_proc EXCEPT ![c].stage = "computed",
                                        ![c].df = Some(ge_result)]
        /\ pc' = "svc"
        /\ UNCHANGED <<psVars, cfgVars, fgVars, ccVars, geVars, apiVars, mkt_proc, svc_stored>>

\* line 58: get_fgi_estimation raised, get_fgi_series lets it through
SVC_Raise ==
    \E c \in Callers :
        /\ svc_proc[c].stage = "running"
        /\ pc = "ge_raised"
        /\ svc_proc' = [svc_proc EXCEPT ![c].stage = "raised", ![c].error = ge_error]
        /\ pc' = "svc"
        /\ UNCHANGED <<psVars, cfgVars, fgVars, ccVars, geVars, apiVars, mkt_proc, svc_stored>>

\* line 61, write_cache: df.to_parquet(path) opens the file
SVC_WriteBegin ==
    \E c \in Callers :
        /\ svc_proc[c].stage = "computed"
        /\ api_cache' = partial_write(api_cache, call_key(c))
        /\ svc_proc' = [svc_proc EXCEPT ![c].stage = "writing"]
        /\ UNCHANGED <<pc, psVars, cfgVars, fgVars, ccVars, geVars, api_handler, api_req,
                       api_env, api_dir, api_k, api_df, api_col, api_datasets, api_span,
                       api_resp, api_error, mkt_proc, svc_stored>>

\* lines 61-62: df.to_parquet(path) returns and so does the call.  The file
\* holds the frame, unless another call is still writing the same file:
\* then it may or may not be readable yet.
SVC_WriteEnd ==
    \E c \in Callers :
        /\ svc_proc[c].stage = "writing"
        /\ \E whole \in (IF other_writer(c) THEN BOOLEAN ELSE {TRUE}) :
               api_cache' = IF whole
                            THEN write_cache(api_cache, call_key(c), Get(svc_proc[c].df))
                            ELSE partial_write(api_cache, call_key(c))
        /\ svc_stored' = [f \in DOMAIN svc_stored \cup {call_key(c)} |->
                              IF f = call_key(c)
                              THEN [frame |-> Get(svc_proc[c].df),
                                    combo |-> combination(svc_proc[c].args, api_env)]
                              ELSE svc_stored[f]]
        /\ svc_proc' = [svc_proc EXCEPT ![c].stage = "returned"]
        /\ UNCHANGED <<pc, psVars, cfgVars, fgVars, ccVars, geVars, api_handler, api_req,
                       api_env, api_dir, api_k, api_df, api_col, api_datasets, api_span,
                       api_resp, api_error, mkt_proc>>

(***************************************************************************)
(* The market series (deploy/services/market_service.py).  A series is     *)
(* [index, values].  Its files live in the same CACHE_DIR.                 *)
(***************************************************************************)
MARKET_REGISTRY ==
    [m \in {"sp500", "nasdaq", "cac40", "msciworld"} |->
        CASE m = "sp500" -> [label |-> "S&P 500", ticker |-> "^GSPC"]
          [] m = "nasdaq" -> [label |-> "NASDAQ Composite", ticker |-> "^IXIC"]
          [] m = "cac40" -> [label |-> "CAC 40", ticker |-> "^FCHI"]
          [] m = "msciworld" -> [label |-> "MSCI World", ticker |-> "^990100-USD-STRD"]]

\* f"market_{market_id}_{range_name}_{end_date}.parquet"
build_market_cache_key(market_id, range_name, end_date) ==
    "market_" \o market_id \o "_" \o range_name \o "_" \o strftime(end_date)
        \o ".parquet"

\* read_cache of market_service: the "value" column of the file, else its
\* only column, else None; None without a file or when it cannot be read
read_market_cache(cache, key) ==
    IF key \in DOMAIN cache /\ cache[key].readable
    THEN LET df == cache[key].frame
         IN  IF "value" \in DOMAIN df.cols
             THEN Some([index |-> df.index, values |-> df.cols["value"]])
             ELSE IF Cardinality(DOMAIN df.cols) = 1
             THEN Some([index |-> df.index,
                        values |-> df.cols[CHOOSE col \in DOMAIN df.cols : TRUE]])
             ELSE None
    ELSE None

\* write_cache of market_service: a frame indexed by date with one column,
\* "value"
write_market_cache(cache, key, s) ==
    [k \in DOMAIN cache \cup {key} |->
        IF k = key
        THEN [readable |-> TRUE,
              frame |-> [index |-> s.index, cols |-> ("value" :> s.values)]]
        ELSE cache[k]]

\* the close of a market on day k
market_close(market_id, k) ==
    CASE market_id = "sp500" -> Float(100 + k)
      [] market_id = "nasdaq" -> Float(200 + 2 * k)
      [] market_id = "cac40" -> Float(300 - k)
      [] market_id = "msciworld" -> Float(400)

\* a series without rows: pd.Series(dtype=float)
NoSeries == [index |-> <<>>, values |-> <<>>]

\* get_yf_close(ticker, start="1990-01-01"): the closes yfinance has for the
\* ticker (env.markets: the markets it has data for), else an empty series
get_yf_close(market_id, env) ==
    IF market_id \in env.markets
    THEN [index |-> [k \in 1..OrchRows |-> k],
          values |-> [k \in 1..OrchRows |-> market_close(market_id, k)]]
    ELSE NoSeries

\* full_series.loc[mask]: the rows from start_date to end_date
download_span(full_series, start_date, end_date) ==
    LET rows == SelectSeq([k \in 1..Len(full_series.index) |-> k],
                          LAMBDA k : in_span(full_series.index[k], start_date, end_date))
    IN  [index |-> [j \in 1..Len(rows) |-> full_series.index[rows[j]]],
         values |-> [j \in 1..Len(rows) |-> full_series.values[rows[j]]]]

(***************************************************************************)
(* Calls of get_market_series.  Like those of get_fgi_series they run on   *)
(* the threads of the pool and overlap, with one another and with calls of *)
(* get_fgi_series; _YF_LOCK covers yf.download alone.  The stages:         *)
(*   idle      no call                                                     *)
(*   called    lines 64-66 done, about to read the cache (line 67)         *)
(*   missed    read_cache returned None (line 68)                          *)
(*   fetched   the history is downloaded and cut to the span (lines 80-95) *)
(*   writing   df.to_parquet has opened the file (line 96, line 59)        *)
(*   returned  line 78 or line 97                                          *)
(*   raised    an exception left the call                                  *)
(* The download touches nothing the calls share, so it is one step.        *)
(***************************************************************************)
IdleMarketArgs == [market_id |-> "", range_name |-> "1Y", end_date |-> None]

IdleMarketCall ==
    [stage |-> "idle", args |-> IdleMarketArgs, series |-> NoSeries, error |-> ""]

\* (start_date, end_date) of a call, line 65
market_dates(c) ==
    get_range_dates(mkt_proc[c].args.range_name, mkt_proc[c].args.end_date,
                    api_env.today)

\* key, line 66
market_key(c) ==
    build_market_cache_key(mkt_proc[c].args.market_id, mkt_proc[c].args.range_name,
                           market_dates(c)[2])

\* another call is inside df.to_parquet on the same file
other_market_writer(c) ==
    \E o \in Callers \ {c} :
        mkt_proc[o].stage = "writing" /\ market_key(o) = market_key(c)

\* lines 61-66: the call begins; an unknown market_id raises ValueError,
\* else the dates and the key are resolved
get_market_series(c, args) ==
    /\ mkt_proc[c].stage = "idle"
    /\ mkt_proc' = [mkt_proc EXCEPT ![c] =
           IF args.market_id \notin DOMAIN MARKET_REGISTRY
           THEN [stage |-> "raised", args |-> args, series |-> NoSeries,
                 error |-> "ValueError"]
           ELSE [stage |-> "called", args |-> args, series |-> NoSeries,
                 error |-> ""]]

\* lines 67-78: read_cache gave a series, which the call returns
MKT_Hit ==
    \E c \in Callers :
        /\ mkt_proc[c].stage = "called"
        /\ ~IsNone(read_market_cache(api_cache, market_key(c)))
        /\ mkt_proc' = [mkt_proc EXCEPT
               ![c].stage = "returned",
               ![c].series = Get(read_market_cache(api_cache, market_key(c)))]
        /\ UNCHANGED <<pc, psVars, cfgVars, fgVars, ccVars, geVars, apiVars, svc_proc,
                       svc_stored>>

\* lines 67-68: read_cache gave None
MKT_Miss ==
    \E c \in Callers :
        /\ mkt_proc[c].stage = "called"
        /\ IsNone(read_market_cache(api_cache, market_key(c)))
        /\ mkt_proc' = [mkt_proc EXCEPT ![c].stage = "missed"]
        /\ UNCHANGED <<pc, psVars, cfgVars, fgVars, ccVars, geVars, apiVars, svc_proc,
                       svc_stored>>

\* lines 80-95: the history is downloaded and cut to the span
MKT_Download ==
    \E c \in Callers :
        /\ mkt_proc[c].stage = "missed"
        /\ mkt_proc' = [mkt_proc EXCEPT
               ![c].stage = "fetched",
               ![c].series = download_span(get_yf_close(mkt_proc[c].args.market_id,
                                                        api_env),
                                           market_dates(c)[1], market_dates(c)[2])]
        /\ UNCHANGED <<pc, psVars, cfgVars, fgVars, ccVars, geVars, apiVars, svc_proc,
                       svc_stored>>

\* lines 80-83: without data for the ticker, yf.download may raise, and so
\* may the comparison of the empty series' index with the dates
MKT_DownloadRaise ==
    \E c \in Callers :
        /\ mkt_proc[c].stage = "missed"
        /\ mkt_proc[c].args.market_id \notin api_env.markets
        /\ mkt_proc' = [mkt_proc EXCEPT ![c].stage = "raised", ![c].error = "Exception"]
        /\ UNCHANGED <<pc, psVars, cfgVars, fgVars, ccVars, geVars, apiVars, svc_proc,
                       svc_stored>>

\* line 96, write_cache: df.to_parquet(path) opens the file
MKT_WriteBegin ==
    \E c \in Callers :
        /\ mkt_proc[c].stage = "fetched"
        /\ api_dir
        /\ api_cache' = partial_write(api_cache, market_key(c))
        /\ mkt_proc' = [mkt_proc EXCEPT ![c].stage = "writing"]
        /\ UNCHANGED <<pc, psVars, cfgVars, fgVars, ccVars, geVars, api_handler, api_req,
                       api_env, api_dir, api_k, api_df, api_col, api_datasets, api_span,
                       api_resp, api_error, svc_proc, svc_stored>>

\* line 96, write_cache: df.to_parquet(path) cannot open the file, since
\* get_market_series does not make the directory
MKT_WriteRaise ==
    \E c \in Callers :
        /\ mkt_proc[c].stage = "fetched"
        /\ ~api_dir
        /\ mkt_proc' = [mkt_proc EXCEPT ![c].stage = "raised",
                                        ![c].error = "FileNotFoundError"]
        /\ UNCHANGED <<pc, psVars, cfgVars, fgVars, ccVars, geVars, apiVars, svc_proc,
                       svc_stored>>

\* lines 96-97: df.to_parquet(path) returns and so does the call.  The file
\* holds the series, unless another call is still writing the same file:
\* then it may or may not be readable yet.
MKT_WriteEnd ==
    \E c \in Callers :
        /\ mkt_proc[c].stage = "writing"
        /\ \E whole \in (IF other_market_writer(c) THEN BOOLEAN ELSE {TRUE}) :
               api_cache' = IF whole
                            THEN write_market_cache(api_cache, market_key(c),
                                                    mkt_proc[c].series)
                            ELSE partial_write(api_cache, market_key(c))
        /\ mkt_proc' = [mkt_proc EXCEPT ![c].stage = "returned"]
        /\ UNCHANGED <<pc, psVars, cfgVars, fgVars, ccVars, geVars, api_handler, api_req,
                       api_env, api_dir, api_k, api_df, api_col, api_datasets, api_span,
                       api_resp, api_error, svc_proc, svc_stored>>

(***************************************************************************)
(* The endpoints get_market, get_chart and get_fgi (deploy/api.py).        *)
(***************************************************************************)
\* mutant: any column stands in for the composite
find_col_any(df) ==
    IF "FG_estimation" \in DOMAIN df.cols THEN Some("FG_estimation")
    ELSE IF "FG_like" \in DOMAIN df.cols THEN Some("FG_like")
    ELSE IF DOMAIN df.cols # {} THEN Some(CHOOSE c \in DOMAIN df.cols : TRUE)
    ELSE None

\* for c in ["FG_estimation", "FG_like"]: the first one among df.columns
find_col(df) ==
    IF "FG_estimation" \in DOMAIN df.cols THEN Some("FG_estimation")
    ELSE IF "FG_like" \in DOMAIN df.cols THEN Some("FG_like")
    ELSE None

\* [FGISeriesPoint(date, value) for idx, val in df[col].items()]
series_points(df, col) ==
    [k \in 1..Len(df.index) |-> [date |-> df.index[k], value |-> df.cols[col][k]]]

\* [FGISeriesPoint(date, value) for idx, val in series.items()]
market_points(s) ==
    [k \in 1..Len(s.index) |-> [date |-> s.index[k], value |-> s.values[k]]]

\* one entry per row: the date and every other column, None where missing
components_list(df, col) ==
    LET score_cols == DOMAIN df.cols \ {col}
    IN  [k \in 1..Len(df.index) |->
            [date |-> df.index[k],
             values |-> [sc \in score_cols |->
                            IF df.cols[sc][k].nan THEN None ELSE Some(df.cols[sc][k])]]]

\* float(df[col].iloc[-1]) if not df.empty else None
last_value(df, col) ==
    IF Len(df.index) = 0 THEN None ELSE Some(df.cols[col][Len(df.index)])

\* the FGIResponse of get_fgi
fgi_response(req, df, dates, col) ==
    [kind |-> "FGIResponse",
     series |-> series_points(df, col),
     last_value |-> last_value(df, col),
     meta |-> [range |-> req.range, start_date |-> dates[1], end_date |-> dates[2],
               with_components |-> req.with_components,
               use_calibrated_model |-> req.use_calibrated_model,
               points |-> Len(df.index)],
     components |-> IF req.with_components THEN Some(components_list(df, col))
                    ELSE None]

\* the MarketSeriesResponse of get_market
market_response(req, s, dates) ==
    [kind |-> "MarketSeriesResponse",
     id |-> req.market_id,
     label |-> MARKET_REGISTRY[req.market_id].label,
     ticker |-> MARKET_REGISTRY[req.market_id].ticker,
     series |-> market_points(s),
     meta |-> [range |-> req.range, start_date |-> dates[1],
               end_date |-> dates[2], points |-> Len(s.index)]]

(* A str is the sequence of its code points where the program looks at its *)
(* characters (include); the names it is compared with are written as      *)
(* strings.                                                                *)
\* the printable ASCII characters in code point order: from the space (32)
\* to the underscore (95), and from "a" (97) to the tilde (126); the grave
\* accent (96) cannot stand in a string here
AsciiTo95 ==
    " !\"#$%&'()*+,-./0123456789:;<=>?@ABCDEFGHIJKLMNOPQRSTUVWXYZ[\\]^_"

AsciiFrom97 == "abcdefghijklmnopqrstuvwxyz{|}~"

\* ord(ch) of one of these characters
ord(ch) ==
    IF \E k \in 1..Len(AsciiTo95) : SubSeq(AsciiTo95, k, k) = ch
    THEN 31 + CHOOSE k \in 1..Len(AsciiTo95) : SubSeq(AsciiTo95, k, k) = ch
    ELSE 96 + CHOOSE k \in 1..Len(AsciiFrom97) : SubSeq(AsciiFrom97, k, k) = ch

\* chr(cp) of one of their code points
chr(cp) ==
    IF cp <= 95 THEN SubSeq(AsciiTo95, cp - 31, cp - 31)
    ELSE SubSeq(AsciiFrom97, cp - 96, cp - 96)

\* the code points of a string of these characters
codes(s) == [k \in 1..Len(s) |-> ord(SubSeq(s, k, k))]

\* the string of such code points
RECURSIVE text(_)
text(cps) == IF cps = <<>> THEN "" ELSE chr(Head(cps)) \o text(Tail(cps))

\* "fgi"
FGI_KEY == codes("fgi")

\* the keys of MARKET_REGISTRY
MARKET_KEYS == {codes(m) : m \in DOMAIN MARKET_REGISTRY}

\* the code points str.isspace() holds for, which str.strip() removes:
\* U+0009..U+000D, U+001C..U+0020, U+0085, U+00A0, U+1680, U+2000..U+200A,
\* U+2028, U+2029, U+202F, U+205F, U+3000
Whitespace ==
    (9..13) \cup (28..32) \cup {133, 160, 5760} \cup (8192..8202)
        \cup {8232, 8233, 8239, 8287, 12288}

\* k.strip(): leading and trailing whitespace removed
RECURSIVE strip(_)
strip(piece) ==
    IF piece = <<>> THEN piece
    ELSE IF Head(piece) \in Whitespace THEN strip(Tail(piece))
    ELSE IF piece[Len(piece)] \in Whitespace
    THEN strip(SubSeq(piece, 1, Len(piece) - 1))
    ELSE piece

\* text.split(sep) from the left: pieces holds the pieces closed so far and
\* piece the one being read
RECURSIVE split_from(_, _, _, _)
split_from(str, sep, pieces, piece) ==
    IF str = <<>> THEN Append(pieces, piece)
    ELSE IF Head(str) = sep
    THEN split_from(Tail(str), sep, Append(pieces, piece), <<>>)
    ELSE split_from(Tail(str), sep, pieces, Append(piece, Head(str)))

\* text.split(sep), sep being one character
split(str, sep) == split_from(str, sep, <<>>, <<>>)

\* keys = [k.strip() for k in include.split(",") if k.strip()]
parse_include(include) ==
    LET pieces == split(include, ord(","))
    IN  SelectSeq([k \in 1..Len(pieces) |-> strip(pieces[k])], LAMBDA s : s # <<>>)

\* the ChartResponse of get_chart
chart_response(req, datasets, span, comps) ==
    [kind |-> "ChartResponse",
     datasets |-> datasets,
     meta |-> [range |-> req.range, span |-> span, include |-> parse_include(req.include)],
     components |-> comps]

(***************************************************************************)
(* Inputs of the endpoints.                                                *)
(***************************************************************************)
RangeInputs == {"1M", "MAX"}

\* texts of include: plain keys, and keys set off by a space, by a no-break
\* space (160), by a vertical tab (11) and by an ideographic space (12288)
IncludeInputs ==
    { codes("fgi"), codes("sp500"), codes("fgi, sp500"),
      codes("nasdaq,fgi") \o <<160>>, codes("fgi,vix"),
      <<11>> \o codes(",") \o <<12288>> \o codes("cac40"), <<>> }

\* the path parameter of get_market; "" for the other endpoints
MarketIdInputs == {"", "sp500", "nasdaq", "vix"}

ApiRequestInputs ==
    [range : RangeInputs, end_date : {None, Some(OrchRows - 1)},
     include : IncludeInputs, with_components : BOOLEAN,
     use_calibrated_model : BOOLEAN, market_id : MarketIdInputs]

\* the parameters an endpoint does not have are at their idle values
RequestOf(handler, req) ==
    CASE handler = "get_fgi" -> req.include = FGI_KEY /\ req.market_id = ""
      [] handler = "get_chart" -> req.market_id = ""
      [] handler = "get_market" ->
             /\ req.include = FGI_KEY
             /\ ~req.with_components
             /\ req.use_calibrated_model
             /\ req.market_id # ""

ApiEnvInputs ==
    [today : {Today}, model_file : ModelFileInputs,
     raw : {None, Some(orch_panel({"spx", "vix", "tlt", "rsp", "hyg"}))},
     fill : FillInputs,
     markets : {DOMAIN MARKET_REGISTRY, {"nasdaq"}}]

\* a frame written by the present pipeline
cached_frame ==
    [index |-> <<OrchRows - 2, OrchRows - 1>>,
     cols |-> ("FG_estimation" :> <<Float(40), Float(60)>>)
              @@ ("score_vix_rel" :> <<NaN, Float(70)>>)]

\* a frame whose aggregate carries its former name
legacy_frame ==
    [index |-> <<OrchRows - 1>>,
     cols |-> ("FG_like" :> <<Float(55)>>) @@ ("score_vix_rel" :> <<Float(70)>>)]

\* a frame without any aggregate
broken_frame ==
    [index |-> <<OrchRows - 1>>, cols |-> ("score_vix_rel" :> <<Float(70)>>)]

\* a market file as write_cache of market_service leaves it, with closes
\* no download gives
stored_market ==
    [index |-> <<OrchRows - 2, OrchRows - 1>>,
     cols |-> ("value" :> <<Float(900), Float(901)>>)]

\* a market file with one column under another name
single_column_market ==
    [index |-> <<OrchRows - 1>>, cols |-> ("Close" :> <<Float(902)>>)]

\* a market file with two columns, none of them "value"
two_column_market ==
    [index |-> <<OrchRows - 1>>,
     cols |-> ("Close" :> <<Float(902)>>) @@ ("Open" :> <<Float(903)>>)]

\* the datasets a request reads
datasets_of(handler, req) ==
    CASE handler = "get_fgi" -> {"fgi"}
      [] handler = "get_chart" ->
             {d \in {"fgi"} \cup DOMAIN MARKET_REGISTRY :
                 \E k \in 1..Len(parse_include(req.include)) :
                     parse_include(req.include)[k] = codes(d)}
      [] handler = "get_market" -> {req.market_id}

\* the file get_market_series looks up for a market under the request
market_key_of(market_id, req, env) ==
    build_market_cache_key(market_id, req.range,
                           get_range_dates(req.range, req.end_date, env.today)[2])

\* the cache directory when the request arrives: not there; empty; or with
\* one file under a key of the request, be it readable or not
CacheInputs(handler, req, env) ==
    { [dir |-> FALSE, files |-> EmptyCache], [dir |-> TRUE, files |-> EmptyCache] }
    \cup
    { [dir |-> TRUE, files |-> key_of(series_args(req), env) :> file] :
        file \in IF "fgi" \in datasets_of(handler, req)
                 THEN { [readable |-> TRUE, frame |-> cached_frame],
                        [readable |-> TRUE, frame |-> legacy_frame],
                        [readable |-> TRUE, frame |-> broken_frame],
                        [readable |-> FALSE, frame |-> NoTable] }
                 ELSE {} }
    \cup
    { [dir |-> TRUE, files |-> market_key_of(m, req, env) :> file] :
        m \in datasets_of(handler, req) \cap DOMAIN MARKET_REGISTRY,
        file \in { [readable |-> TRUE, frame |-> stored_market],
                   [readable |-> TRUE, frame |-> single_column_market],
                   [readable |-> TRUE, frame |-> two_column_market],
                   [readable |-> FALSE, frame |-> NoTable] } }

(***************************************************************************)
(* The endpoints as processes.  get_fgi answers from the frame of          *)
(* get_fgi_series; get_chart goes through the keys of include and answers  *)
(* after the last; get_market answers from get_market_series.  While the   *)
(* endpoint is inside get_fgi_series or get_market_series, pc is "svc".    *)
(***************************************************************************)
\* keys
cur_keys == parse_include(api_req.include)

\* the key the loop of get_chart is at
cur_key == cur_keys[api_k + 1]

\* (start_date, end_date) of the request
cur_dates == get_range_dates(api_req.range, api_req.end_date, api_env.today)

\* the handler is about to call get_fgi_series
AtSeriesCall ==
    /\ pc = "api_start"
    /\ \/ api_handler = "get_fgi"
       \/ api_handler = "get_chart" /\ api_k < Len(cur_keys) /\ cur_key = FGI_KEY

\* df, start_date, end_date = get_fgi_series(...): the call is made
API_CallSeries ==
    /\ AtSeriesCall
    /\ get_fgi_series(Handler, series_args(api_req))
    /\ pc' = "svc"
    /\ UNCHANGED <<psVars, cfgVars, fgVars, ccVars, geVars, api_handler, api_req, api_env,
                   api_cache, api_k, api_df, api_col, api_datasets, api_span, api_resp,
                   api_error, mkt_proc, svc_stored>>

\* get_fgi_series returned its frame
API_SeriesReturn ==
    /\ pc = "svc"
    /\ api_handler # ""
    /\ svc_proc[Handler].stage = "returned"
    /\ api_df' = svc_proc[Handler].df
    /\ svc_proc' = [svc_proc EXCEPT ![Handler] = IdleCall]
    /\ pc' = "api_frame"
    /\ UNCHANGED <<psVars, cfgVars, fgVars, ccVars, geVars, api_handler, api_req, api_env,
                   api_cache, api_dir, api_k, api_col, api_datasets, api_span, api_resp,
                   api_error, mkt_proc, svc_stored>>

\* get_fgi_series let the exception of get_fgi_estimation through, and
\* neither get_fgi nor get_chart catches it
API_PipelineRaise ==
    /\ pc = "svc"
    /\ api_handler # ""
    /\ svc_proc[Handler].stage = "raised"
    /\ api_error' = svc_proc[Handler].error
    /\ pc' = "api_raised"
    /\ UNCHANGED <<psVars, cfgVars, fgVars, ccVars, geVars, api_handler, api_req, api_env,
                   api_cache, api_dir, api_k, api_df, api_col, api_datasets, api_span,
                   api_resp, svcVars>>

\* get_fgi returns its FGIResponse
API_FgiReturn ==
    /\ pc = "api_frame"
    /\ api_handler = "get_fgi"
    /\ ~IsNone(find_col(Get(api_df)))
    /\ api_col' = find_col(Get(api_df))
    /\ api_resp' = Some(fgi_response(api_req, Get(api_df), cur_dates,
                                     Get(find_col(Get(api_df)))))
    /\ pc' = "api_done"
    /\ UNCHANGED <<psVars, cfgVars, fgVars, ccVars, geVars, api_handler, api_req, api_env,
                   api_cache, api_dir, api_k, api_df, api_datasets, api_span, api_error,
                   svcVars>>

\* get_fgi: raise RuntimeError("FG_estimation or FG_like column not found")
API_FgiNoColumn ==
    /\ pc = "api_frame"
    /\ api_handler = "get_fgi"
    /\ IsNone(find_col(Get(api_df)))
    /\ api_error' = "RuntimeError"
    /\ pc' = "api_raised"
    /\ UNCHANGED <<psVars, cfgVars, fgVars, ccVars, geVars, api_handler, api_req, api_env,
                   api_cache, api_dir, api_k, api_df, api_col, api_datasets, api_span,
                   api_resp, svcVars>>

\* get_chart, key "fgi": the dataset is added
API_ChartFgi ==
    /\ pc = "api_frame"
    /\ api_handler = "get_chart"
    /\ ~IsNone(find_col(Get(api_df)))
    /\ api_col' = find_col(Get(api_df))
    /\ api_datasets' = [d \in DOMAIN api_datasets \cup {"fgi"} |->
                           IF d = "fgi"
                           THEN series_points(Get(api_df), Get(find_col(Get(api_df))))
                           ELSE api_datasets[d]]
    /\ api_span' = IF IsNone(api_span) THEN Some(cur_dates) ELSE api_span
    /\ api_k' = api_k + 1
    /\ pc' = "api_start"
    /\ UNCHANGED <<psVars, cfgVars, fgVars, ccVars, geVars, api_handler, api_req, api_env,
                   api_cache, api_dir, api_df, api_resp, api_error, svcVars>>

\* get_chart, key "fgi": raise HTTPException(status_code=500, ...)
API_ChartFgiNoColumn ==
    /\ pc = "api_frame"
    /\ api_handler = "get_chart"
    /\ IsNone(find_col(Get(api_df)))
    /\ api_col' = None
    /\ api_error' = "HTTPException 500"
    /\ pc' = "api_raised"
    /\ UNCHANGED <<psVars, cfgVars, fgVars, ccVars, geVars, api_handler, api_req, api_env,
                   api_cache, api_dir, api_k, api_df, api_datasets, api_span, api_resp,
                   svcVars>>

\* the arguments of a call get_market_series(market_id, range, end_date)
market_args(market_id, req) ==
    [market_id |-> market_id, range_name |-> req.range, end_date |-> req.end_date]

\* the handler is about to call get_market_series: get_chart at a key of
\* MARKET_REGISTRY other than "fgi", get_market past its own look-up
AtMarketCall ==
    /\ pc = "api_start"
    /\ \/ /\ api_handler = "get_chart"
          /\ api_k < Len(cur_keys)
          /\ cur_key # FGI_KEY
          /\ cur_key \in MARKET_KEYS
       \/ /\ api_handler = "get_market"
          /\ api_req.market_id \in DOMAIN MARKET_REGISTRY

\* series, s, e = get_market_series(...): the call is made
API_CallMarket ==
    /\ AtMarketCall
    /\ get_market_series(Handler,
                         market_args(IF api_handler = "get_chart" THEN text(cur_key)
                                     ELSE api_req.market_id,
                                     api_req))
    /\ pc' = "svc"
    /\ UNCHANGED <<psVars, cfgVars, fgVars, ccVars, geVars, apiVars, svc_proc,
                   svc_stored>>

\* get_chart, a market id: get_market_series returned and the dataset is
\* added
API_ChartMarket ==
    /\ pc = "svc"
    /\ api_handler = "get_chart"
    /\ mkt_proc[Handler].stage = "returned"
    /\ api_datasets' = [d \in DOMAIN api_datasets \cup {text(cur_key)} |->
                           IF d = text(cur_key)
                           THEN market_points(mkt_proc[Handler].series)
                           ELSE api_datasets[d]]
    /\ api_span' = IF IsNone(api_span) THEN Some(market_dates(Handler)) ELSE api_span
    /\ api_k' = api_k + 1
    /\ mkt_proc' = [mkt_proc EXCEPT ![Handler] = IdleMarketCall]
    /\ pc' = "api_start"
    /\ UNCHANGED <<psVars, cfgVars, fgVars, ccVars, geVars, api_handler, api_req,
                   api_env, api_cache, api_dir, api_df, api_col, api_resp, api_error,
                   svc_proc, svc_stored>>

\* get_chart, a market id: except Exception -> HTTPException(status_code=500)
API_ChartMarketRaise ==
    /\ pc = "svc"
    /\ api_handler = "get_chart"
    /\ mkt_proc[Handler].stage = "raised"
    /\ api_error' = "HTTPException 500"
    /\ pc' = "api_raised"
    /\ UNCHANGED <<psVars, cfgVars, fgVars, ccVars, geVars, api_handler, api_req, api_env,
                   api_cache, api_dir, api_k, api_df, api_col, api_datasets, api_span,
                   api_resp, svcVars>>

\* get_chart, any other key: neither branch is taken
API_ChartSkip ==
    /\ pc = "api_start"
    /\ api_handler = "get_chart"
    /\ api_k < Len(cur_keys)
    /\ cur_key # FGI_KEY
    /\ cur_key \notin MARKET_KEYS
    /\ api_k' = api_k + 1
    /\ UNCHANGED <<pc, psVars, cfgVars, fgVars, ccVars, geVars, api_handler, api_req,
                   api_env, api_cache, api_dir, api_df, api_col, api_datasets, api_span,
                   api_resp, api_error, svcVars>>

\* get_chart after the loop: the ChartResponse
API_ChartRespond ==
    /\ pc = "api_start"
    /\ api_handler = "get_chart"
    /\ api_k = Len(cur_keys)
    /\ api_req.with_components => ~IsNone(api_df)
    /\ api_resp' = Some(chart_response(api_req, api_datasets, api_span,
                          IF api_req.with_components
                          THEN Some(components_list(Get(api_df), Get(api_col)))
                          ELSE None))
    /\ pc' = "api_done"
    /\ UNCHANGED <<psVars, cfgVars, fgVars, ccVars, geVars, api_handler, api_req, api_env,
                   api_cache, api_dir, api_k, api_df, api_col, api_datasets, api_span,
                   api_error, svcVars>>

\* get_chart after the loop: with_components reads df, which no iteration
\* has bound
API_ChartUnbound ==
    /\ pc = "api_start"
    /\ api_handler = "get_chart"
    /\ api_k = Len(cur_keys)
    /\ api_req.with_components
    /\ IsNone(api_df)
    /\ api_error' = "UnboundLocalError"
    /\ pc' = "api_raised"
    /\ UNCHANGED <<psVars, cfgVars, fgVars, ccVars, geVars, api_handler, api_req, api_env,
                   api_cache, api_dir, api_k, api_df, api_col, api_datasets, api_span,
                   api_resp, svcVars>>

\* get_market: raise HTTPException(status_code=404, detail="Unknown market_id")
API_MarketUnknown ==
    /\ pc = "api_start"
    /\ api_handler = "get_market"
    /\ api_req.market_id \notin DOMAIN MARKET_REGISTRY
    /\ api_error' = "HTTPException 404"
    /\ pc' = "api_raised"
    /\ UNCHANGED <<psVars, cfgVars, fgVars, ccVars, geVars, api_handler, api_req, api_env,
                   api_cache, api_dir, api_k, api_df, api_col, api_datasets, api_span,
                   api_resp, svcVars>>

\* get_market: except Exception -> HTTPException(status_code=500)
API_MarketRaise ==
    /\ pc = "svc"
    /\ api_handler = "get_market"
    /\ mkt_proc[Handler].stage = "raised"
    /\ api_error' = "HTTPException 500"
    /\ pc' = "api_raised"
    /\ UNCHANGED <<psVars, cfgVars, fgVars, ccVars, geVars, api_handler, api_req, api_env,
                   api_cache, api_dir, api_k, api_df, api_col, api_datasets, api_span,
                   api_resp, svcVars>>

\* get_market: get_market_series returned, and the MarketSeriesResponse is
\* built from its series
API_MarketReturn ==
    /\ pc = "svc"
    /\ api_handler = "get_market"
    /\ mkt_proc[Handler].stage = "returned"
    /\ api_resp' = Some(market_response(api_req, mkt_proc[Handler].series,
                                        market_dates(Handler)))
    /\ pc' = "api_done"
    /\ UNCHANGED <<psVars, cfgVars, fgVars, ccVars, geVars, api_handler, api_req, api_env,
                   api_cache, api_dir, api_k, api_df, api_col, api_datasets, api_span,
                   api_error, svcVars>>

IdleApiRequest ==
    [range |-> "1Y", end_date |-> None, include |-> FGI_KEY,
     with_components |-> FALSE, use_calibrated_model |-> TRUE, market_id |-> ""]

IdleApiEnv ==
    [today |-> 0, model_file |-> None, raw |-> None, fill |-> "pad", markets |-> {}]

\* no dataset yet
NoDatasets == [d \in {} |-> d]

APILocalsInit ==
    /\ api_k = 0
    /\ api_df = None
    /\ api_col = None
    /\ api_datasets = NoDatasets
    /\ api_span = None
    /\ api_resp = None
    /\ api_error = ""

\* no call in progress, nothing computed yet
SvcInit ==
    /\ svc_proc = [c \in Callers |-> IdleCall]
    /\ mkt_proc = [c \in Callers |-> IdleMarketCall]
    /\ svc_stored = EmptyCache

APIIdle ==
    /\ api_handler = ""
    /\ api_req = IdleApiRequest
    /\ api_env = IdleApiEnv
    /\ api_cache = EmptyCache
    /\ api_dir = FALSE
    /\ APILocalsInit
    /\ SvcInit

\* a request to /v1/fgi, /v1/chart or /v1/markets/{market_id}
InitAPI ==
    /\ pc = "api_start"
    /\ api_handler \in {"get_fgi", "get_chart", "get_market"}
    /\ api_req \in ApiRequestInputs
    /\ RequestOf(api_handler, api_req)
    /\ api_env \in ApiEnvInputs
    /\ \E before \in CacheInputs(api_handler, api_req, api_env) :
           /\ api_dir = before.dir
           /\ api_cache = before.files
    /\ APILocalsInit
    /\ SvcInit
    /\ CfgIdle
    /\ CCIdle
    /\ GEIdle

NextAPI ==
    \/ API_CallSeries \/ API_SeriesReturn \/ API_PipelineRaise
    \/ SVC_Hit \/ SVC_Miss \/ SVC_Start \/ SVC_Result \/ SVC_Raise
    \/ SVC_WriteBegin \/ SVC_WriteEnd
    \/ API_CallMarket
    \/ MKT_Hit \/ MKT_Miss \/ MKT_Download \/ MKT_DownloadRaise
    \/ MKT_WriteBegin \/ MKT_WriteRaise \/ MKT_WriteEnd
    \/ API_FgiReturn \/ API_FgiNoColumn
    \/ API_ChartFgi \/ API_ChartFgiNoColumn
    \/ API_ChartMarket \/ API_ChartMarketRaise \/ API_ChartSkip
    \/ API_ChartRespond \/ API_ChartUnbound
    \/ API_MarketUnknown \/ API_MarketRaise \/ API_MarketReturn

(***************************************************************************)
(* Overlapping calls of get_fgi_series and get_market_series over the same *)
(* cache directory, made for requests to /v1/fgi and                       *)
(* /v1/markets/{market_id} that arrive one after the other.                *)
(***************************************************************************)
\* the arguments of the calls of get_fgi_series
CallInputs ==
    { [range_name |-> r[1], end_date |-> r[2], with_components |-> r[3],
       use_calibrated_model |-> r[4]] :
        r \in { <<"1M", None, FALSE, TRUE>>,
                <<"1M", Some(Today), FALSE, TRUE>>,
                <<"1M", None, FALSE, FALSE>>,
                <<"MAX", Some(Today - 1), TRUE, TRUE>> } }

\* the arguments of the calls of get_market_series
MarketCallInputs == { [market_id |-> "sp500", range_name |-> "1M", end_date |-> None] }

\* the model file is there; the data sources answer or not
CacheEnvInputs ==
    { e \in ApiEnvInputs :
        /\ ~IsNone(e.model_file)
        /\ ~IsNone(Get(e.model_file).feature_names_in_)
        /\ e.fill = "pad"
        /\ e.markets = DOMAIN MARKET_REGISTRY }

\* the call a request to /v1/fgi?range=1M makes
DefaultCall ==
    [range_name |-> "1M", end_date |-> None, with_components |-> FALSE,
     use_calibrated_model |-> TRUE]

\* the directory before the first call: not there; empty; or with a file
\* under the key of today's default request, left by an earlier run or
\* unreadable
FirstCacheInputs(env) ==
    { [dir |-> FALSE, files |-> EmptyCache], [dir |-> TRUE, files |-> EmptyCache] }
    \cup
    { [dir |-> TRUE, files |-> key_of(DefaultCall, env) :> file] :
        file \in { [readable |-> TRUE, frame |-> cached_frame],
                   [readable |-> FALSE, frame |-> NoTable] } }

\* the server is up and no request has arrived
InitCache ==
    /\ pc = "svc"
    /\ api_handler = ""
    /\ api_req = IdleApiRequest
    /\ api_env \in CacheEnvInputs
    /\ \E before \in FirstCacheInputs(api_env) :
           /\ api_dir = before.dir
           /\ api_cache = before.files
    /\ APILocalsInit
    /\ SvcInit
    /\ CfgIdle
    /\ CCIdle
    /\ GEIdle
    /\ PSIdle
    /\ FGIdle

\* the client has made no call yet
Fresh(c) == svc_proc[c].stage = "idle" /\ mkt_proc[c].stage = "idle"

\* a request to /v1/fgi arrives and its thread calls get_fgi_series
SVC_Arrive ==
    \E k \in 1..Len(ClientOrder), args \in CallInputs :
        /\ \A j \in 1..(k - 1) : ~Fresh(ClientOrder[j])
        /\ Fresh(ClientOrder[k])
        /\ get_fgi_series(ClientOrder[k], args)
        /\ UNCHANGED <<pc, psVars, cfgVars, fgVars, ccVars, geVars, api_handler, api_req,
                       api_env, api_cache, api_k, api_df, api_col, api_datasets, api_span,
                       api_resp, api_error, mkt_proc, svc_stored>>

\* a request to /v1/markets/{market_id} arrives and its thread calls
\* get_market_series
MKT_Arrive ==
    \E k \in 1..Len(ClientOrder), args \in MarketCallInputs :
        /\ \A j \in 1..(k - 1) : ~Fresh(ClientOrder[j])
        /\ Fresh(ClientOrder[k])
        /\ get_market_series(ClientOrder[k], args)
        /\ UNCHANGED <<pc, psVars, cfgVars, fgVars, ccVars, geVars, apiVars, svc_proc,
                       svc_stored>>

NextCache ==
    \/ SVC_Arrive \/ SVC_Hit \/ SVC_Miss \/ SVC_Start \/ SVC_Result \/ SVC_Raise
    \/ SVC_WriteBegin \/ SVC_WriteEnd
    \/ MKT_Arrive \/ MKT_Hit \/ MKT_Miss \/ MKT_Download
    \/ MKT_WriteBegin \/ MKT_WriteRaise \/ MKT_WriteEnd
    \/ GE_Dates \/ GE_LoadModel \/ GE_NoModel \/ GE_BuildRaw \/ GE_BuildRawRaise
    \/ GE_Components \/ GE_FearGreed \/ GE_Return

(***************************************************************************)
(* percentile_score as a process: the loop over the rows.                  *)
(***************************************************************************)
cur_branch == loop_branch(series, i, min_periods, window)

PS_SkipMissing ==
    /\ pc = "ps_loop"
    /\ i < Len(series)
    /\ cur_branch = "continue_missing"
    /\ i' = i + 1
    /\ UNCHANGED <<pc, series, invert, scores, cfgVars, fgVars, ccVars, geVars, apiVars,
                   svcVars>>

PS_SkipWarmup ==
    /\ pc = "ps_loop"
    /\ i < Len(series)
    /\ cur_branch = "continue_warmup"
    /\ i' = i + 1
    /\ UNCHANGED <<pc, series, invert, scores, cfgVars, fgVars, ccVars, geVars, apiVars,
                   svcVars>>

PS_Score ==
    /\ pc = "ps_loop"
    /\ i < Len(series)
    /\ cur_branch \in {"score", "raise"}
    /\ IF cur_branch = "raise"
       THEN pc' = "ps_raised" /\ UNCHANGED <<i, scores>>
       ELSE /\ scores' = [scores EXCEPT ![i + 1] =
                             score_of(hist_at(series, i, window), invert, lower_q, upper_q)]
            /\ i' = i + 1
            /\ pc' = pc
    /\ UNCHANGED <<series, invert, cfgVars, fgVars, ccVars, geVars, apiVars, svcVars>>

PS_Return ==
    /\ pc = "ps_loop"
    /\ i = Len(series)
    /\ pc' = "ps_done"
    /\ UNCHANGED <<psVars, cfgVars, fgVars, ccVars, geVars, apiVars, svcVars>>

\* a call of percentile_score
InitPS ==
    /\ pc = "ps_loop"
    /\ series \in SeriesInputs
    /\ invert \in BOOLEAN
    /\ min_periods \in MinPeriodsInputs
    /\ window \in WindowInputs
    /\ \E q \in QuantileInputs : lower_q = q[1] /\ upper_q = q[2]
    /\ i = 0
    /\ scores = [k \in 1..Len(series) |-> NaN]
    /\ FGIdle
    /\ CCIdle
    /\ GEIdle
    /\ APIIdle

\* a call of compute_fear_greed
InitFG ==
    /\ pc = "fg_loop"
    /\ components \in ComponentInputs
    /\ \E m \in ModelInputs : weights = m[1] /\ intercept = m[2]
    /\ min_periods \in MinPeriodsInputs
    /\ window = None  \* the default 1260 rows exceed every table here
    /\ lower_q = Some(Rat(1, 100))
    /\ upper_q = Some(Rat(99, 100))
    /\ fg_k = 0
    /\ fg_scores = empty_scores(components)
    /\ fg_name = ""
    /\ PSIdle
    /\ CCIdle
    /\ GEIdle
    /\ APIIdle

NextPS == PS_SkipMissing \/ PS_SkipWarmup \/ PS_Score \/ PS_Return

NextFG == FG_SkipColumn \/ FG_ScoreColumn \/ FG_NoComponents \/ FG_Mean \/ FG_Calibrated

\* calls of percentile_score
SpecPS == InitPS /\ [][NextPS]_vars

\* calls of compute_fear_greed
SpecFG == InitFG /\ [][NextFG]_vars

\* a call of compute_components, nothing else in progress
InitComponents == InitCC /\ PSIdle /\ FGIdle /\ GEIdle /\ APIIdle

\* calls of compute_components
SpecCC == InitComponents /\ [][NextCC]_vars

\* a call of get_fgi_estimation, nothing else in progress
InitEstimation == InitGE /\ PSIdle /\ FGIdle /\ APIIdle

\* calls of get_fgi_estimation
SpecGE == InitEstimation /\ [][NextGE]_vars

\* a request to an endpoint, nothing else in progress
InitRequest == InitAPI /\ PSIdle /\ FGIdle

\* a call of get_fgi_estimation or a request to an endpoint
InitServe == InitEstimation \/ InitRequest

NextServe == NextGE \/ NextAPI

\* calls of get_fgi_estimation, on their own or inside requests to the
\* endpoints
SpecServe == InitServe /\ [][NextServe]_vars

\* requests to /v1/fgi and /v1/markets/{market_id} whose calls overlap
SpecCache == InitCache /\ [][NextCache]_vars

\* calls of percentile_score or compute_fear_greed
Init == InitPS \/ InitFG

Next == NextPS \/ NextFG

Spec == Init /\ [][Next]_vars

(***************************************************************************)
(* Vocabulary of the properties of percentile_score.                       *)
(***************************************************************************)
PSDone == pc = "ps_done"
Rows == 1..Len(series)
Hundred == Float(100)

\* what the finished call returned at row t, as a call on another input
ScoreOn(s, t) == score_at(s, t - 1, invert, min_periods, window, lower_q, upper_q)

\* the series truncated to rows <= t
Truncated(t) == SubSeq(series, 1, t)

\* non-missing observations up to and including t
PrefixCount(t) == Cardinality({k \in 1..t : ~series[k].nan})

\* the rows of the window ending at t, and its non-missing observations
WindowRows(t) == {k \in 1..t : IsNone(window) \/ k > t - Get(window)}
WindowCount(t) == Cardinality({k \in WindowRows(t) : ~series[k].nan})
FirstWindowRow(t) == IF IsNone(window) THEN 1 ELSE Max(1, t - Get(window) + 1)
Sample(t) == SelectSeq(SubSeq(series, FirstWindowRow(t), t), LAMBDA x : ~x.nan)

Winsorizing == ~IsNone(lower_q) /\ ~IsNone(upper_q)
QLow(t) == quantile(Sample(t), Get(lower_q))
QHigh(t) == quantile(Sample(t), Get(upper_q))
\* the winsorized historical sample of row t
Winsorized(t) ==
    IF Winsorizing
    THEN LET h == Sample(t)
             lo == quantile(h, Get(lower_q))
             hi == quantile(h, Get(upper_q))
         IN  [k \in 1..Len(h) |-> clip(h[k], lo, hi)]
    ELSE Sample(t)

\* C1: no look-ahead.  The score at t of the finished call equals the score at
\* t of a call on the series truncated to rows <= t, and equals the score at t
\* of a call on the series with any one later row changed to any value.
C1_NoLookAhead ==
    PSDone =>
        \A t \in Rows :
            /\ ScoreOn(Truncated(t), t) = scores[t]
            /\ \A j \in (t + 1)..Len(series) : \A v \in RawValues :
                   ScoreOn([series EXCEPT ![j] = v], t) = scores[t]

\* C1 witness: a defined score at a row that is followed by a different value
C1_Witness ==
    /\ PSDone
    /\ \E t \in Rows : /\ t < Len(series)
                       /\ ~scores[t].nan
                       /\ ~series[t + 1].nan
                       /\ series[t + 1] # series[t]

\* C2 as stated: the count is taken over all rows up to and including t, in
\* expanding and in rolling mode.
C2_WarmUpPrefixCount ==
    PSDone =>
        \A t \in Rows :
            /\ PrefixCount(t) < min_periods => scores[t].nan
            /\ (PrefixCount(t) >= min_periods
                /\ \A u \in 1..(t - 1) : PrefixCount(u) < min_periods)
               => ~scores[t].nan

\* C2 amended: warm-up counts the non-missing observations of the historical
\* sample of t (the window ending at t; every row up to t when window is
\* None).  Fewer than min_periods of them: the score at t is missing (so it is
\* missing too when the whole prefix holds fewer than min_periods).  At the
\* first t where that count reaches min_periods the score is defined.
C2_WarmUpWindowCount ==
    PSDone =>
        \A t \in Rows :
            /\ WindowCount(t) < min_periods => scores[t].nan
            /\ PrefixCount(t) < min_periods => scores[t].nan
            /\ (WindowCount(t) >= min_periods
                /\ \A u \in 1..(t - 1) : WindowCount(u) < min_periods)
               => ~scores[t].nan

\* C2 witness: rolling mode, the prefix holds min_periods observations for the
\* first time but the window does not, and a later row ends the warm-up
C2_Witness ==
    /\ PSDone
    /\ ~IsNone(window)
    /\ \E t \in Rows : /\ PrefixCount(t) >= min_periods
                       /\ \A u \in 1..(t - 1) : PrefixCount(u) < min_periods
                       /\ WindowCount(t) < min_periods
    /\ \E t \in Rows : /\ WindowCount(t) >= min_periods
                       /\ \A u \in 1..(t - 1) : WindowCount(u) < min_periods
                       /\ ~scores[t].nan

\* C3 as stated: the score is 100 times the fraction of winsorized values that
\* are <= the un-clipped value at t.
C3_RankIsFractionAtMost ==
    PSDone /\ ~invert =>
        \A t \in Rows :
            ~scores[t].nan =>
                LET w == Winsorized(t)
                    atmost == Cardinality({k \in 1..Len(w) : Le(w[k], series[t])})
                IN  scores[t] = Rat(100 * atmost, Len(w))

\* C3 amended: the score is 100 * (L + (E + 1) / 2) / n, n the size of the
\* winsorized sample, L the number of its values below the clipped value at t
\* and E the number equal to it (itself included): the value at t is clipped
\* like the rest and tied values share the average of their ranks.
C3_RankIsAverageRank ==
    PSDone /\ ~invert =>
        \A t \in Rows :
            ~scores[t].nan =>
                LET w == Winsorized(t)
                    n == Len(w)
                    below == Cardinality({k \in 1..n : Lt(w[k], w[n])})
                    equal == Cardinality({k \in 1..n : Eq(w[k], w[n])})
                IN  scores[t] = Rat(100 * (2 * below + equal + 1), 2 * n)

\* C3 witness: a defined score whose winsorized sample holds a tie with the
\* value at t and a value clipped by the quantile bounds
C3_Witness ==
    /\ PSDone /\ ~invert /\ Winsorizing
    /\ \E t \in Rows :
          /\ ~scores[t].nan
          /\ LET h == Sample(t)
                 w == Winsorized(t)
             IN  /\ \E k \in 1..(Len(h) - 1) : Eq(w[k], w[Len(h)])
                 /\ \E k \in 1..Len(h) : w[k] # h[k]

\* C5: invert symmetry.  The call with the other invert setting is defined at
\* exactly the same rows, and the two scores of a row add up to 100.
C5_InvertSymmetry ==
    PSDone =>
        LET other == percentile_score(series, ~invert, min_periods, window, lower_q, upper_q)
        IN  \A t \in Rows :
                /\ other[t].nan <=> scores[t].nan
                /\ ~scores[t].nan =>
                       IF invert THEN scores[t] = Sub(Hundred, other[t])
                       ELSE other[t] = Sub(Hundred, scores[t])

\* C5 witness: an inverted score strictly between 0 and 100
C5_Witness ==
    /\ PSDone /\ invert
    /\ \E t \in Rows : Lt(Float(0), scores[t]) /\ Lt(scores[t], Hundred)

\* replacement values of C6: beyond the range of the inputs on both sides
ReplacementValues == {Float(v) : v \in (0 - 2)..4}

\* C6: winsorization boundedness.  A non-missing row j before t inside the
\* window of t whose value is above Q(upper_q) of the sample of t may be raised
\* to any larger value, and one below Q(lower_q) lowered to any smaller value,
\* without changing the score at t.
C6_WinsorBounded ==
    PSDone /\ Winsorizing =>
        \A t \in Rows :
            ~scores[t].nan =>
                LET q_low == QLow(t)
                    q_high == QHigh(t)
                IN  \A j \in WindowRows(t) \ {t} :
                        LET above == Lt(q_high, series[j])
                            below == Lt(series[j], q_low)
                        IN  (above \/ below) =>
                                \A v \in ReplacementValues :
                                    (\/ above /\ Lt(series[j], v)
                                     \/ below /\ Lt(v, series[j]))
                                    => ScoreOn([series EXCEPT ![j] = v], t) = scores[t]

\* C6 witness: a historical value above the upper clip and below the value at
\* t, so that raising it past the value at t would change an unclipped rank
C6_Witness ==
    /\ PSDone /\ Winsorizing
    /\ \E t \in Rows :
          /\ ~scores[t].nan
          /\ LET q_high == QHigh(t)
             IN  \E j \in WindowRows(t) \ {t} :
                     Lt(q_high, series[j]) /\ Lt(series[j], series[t])

\* C7: missing data is never an error.  The call never raises; a missing raw
\* value at t leaves a missing score at t however much history there is; and an
\* entirely missing series gives an entirely missing score series.
C7_MissingIsNotAnError ==
    /\ pc # "ps_raised"
    /\ pc \in {"ps_loop", "ps_done"} => \A t \in Rows : series[t] = NaN => scores[t] = NaN
    /\ (PSDone /\ \A t \in Rows : series[t] = NaN) => \A t \in Rows : scores[t] = NaN

\* C7 witness: a missing value at a row whose window holds min_periods
\* observations, in a finished call
C7_Witness ==
    /\ PSDone
    /\ \E t \in Rows : series[t] = NaN /\ WindowCount(t) >= min_periods

\* a row whose winsorized sample is one invariant value, at least min_periods long
Degenerate(t) ==
    /\ ~series[t].nan
    /\ Len(Sample(t)) >= min_periods
    /\ LET w == Winsorized(t)
       IN  \A k \in 1..Len(w) : Eq(w[k], w[Len(w)])

\* C8 as stated: a degenerate history gives a defined score of rank 1.0.
C8_DegenerateRankIsOne ==
    PSDone /\ ~invert =>
        \A t \in Rows : Degenerate(t) => ~scores[t].nan /\ scores[t] = Hundred

\* C8 amended: a degenerate history of n values gives a defined score of rank
\* (n + 1) / (2n), the average rank of n tied values: 1.0 only when n = 1, and
\* 100 * (n + 1) / (2n) as a score with invert=False.
C8_DegenerateRankIsAverage ==
    PSDone /\ ~invert =>
        \A t \in Rows :
            Degenerate(t) =>
                /\ ~scores[t].nan
                /\ scores[t] = Rat(100 * (Len(Sample(t)) + 1), 2 * Len(Sample(t)))
                /\ (scores[t] = Hundred <=> Len(Sample(t)) = 1)

\* C8 witness: a degenerate history of more than one value
C8_Witness ==
    /\ PSDone /\ ~invert
    /\ \E t \in Rows : Degenerate(t) /\ Len(Sample(t)) >= 2

(***************************************************************************)
(* Vocabulary of the properties of compute_fear_greed.                     *)
(***************************************************************************)
FGDone == pc = "fg_done"
FGRowSet == 1..fg_scores.nrows
\* the component score columns of the returned table
ScoreCols == DOMAIN fg_scores.cols \ {fg_name}
\* the composite column of the returned table
Composite == fg_scores.cols[fg_name]
ScoreCell(c, r) == fg_scores.cols[c][r]
DefinedAt(r) == {c \in ScoreCols : ~ScoreCell(c, r).nan}

InRange(x) == Le(Float(0), x) /\ Le(x, Hundred)

\* the row {a: 80, b: 40, c: missing} of the specification's example
ExampleRow ==
    [nrows |-> 1, cols |-> [a |-> <<Float(80)>>, b |-> <<Float(40)>>, c |-> <<NaN>>]]

\* C4: range.  Every defined score of a finished percentile_score call lies in
\* [0, 100], with either invert setting; every defined component score and,
\* in mean mode, every defined FG_est_mean value of a finished
\* compute_fear_greed call lies in [0, 100].
C4_Range ==
    /\ PSDone => \A t \in Rows : scores[t].nan \/ InRange(scores[t])
    /\ FGDone =>
          /\ \A c \in ScoreCols : \A r \in FGRowSet :
                 ScoreCell(c, r).nan \/ InRange(ScoreCell(c, r))
          /\ fg_name = "FG_est_mean" =>
                 \A r \in FGRowSet : Composite[r].nan \/ InRange(Composite[r])

\* C4 witness: a mean-mode composite strictly inside the range, over an
\* inverted and a non-inverted score
C4_Witness ==
    /\ FGDone /\ fg_name = "FG_est_mean"
    /\ \E r \in FGRowSet :
          /\ Lt(Float(0), Composite[r]) /\ Lt(Composite[r], Hundred)
          /\ {"momentum_spx", "vix_rel"} \subseteq DefinedAt(r)

\* C9: unweighted aggregation.  With weights=None the composite of a row is the
\* arithmetic mean of the row's non-missing component scores, and is missing
\* when every component score of the row is missing; scores
\* {a: 80, b: 40, c: missing} give 60.
C9_UnweightedMean ==
    /\ (FGDone /\ IsNone(weights) /\ ScoreCols # {}) =>
          /\ fg_name = "FG_est_mean"
          /\ \A r \in FGRowSet :
                IF DefinedAt(r) = {} THEN Composite[r] = NaN
                ELSE /\ ~Composite[r].nan
                     /\ Mul(Composite[r], Float(Cardinality(DefinedAt(r))))
                          = RatSum([c \in DefinedAt(r) |-> ScoreCell(c, r)], DefinedAt(r))
    /\ row_mean(ExampleRow, {"a", "b", "c"}, 1) = Float(60)

\* C9 witness: a row with a missing score beside two different defined scores,
\* and a row with every score missing
C9_Witness ==
    /\ FGDone /\ fg_name = "FG_est_mean"
    /\ \E r \in FGRowSet :
          /\ DefinedAt(r) # ScoreCols
          /\ \E c, d \in DefinedAt(r) : ScoreCell(c, r) # ScoreCell(d, r)
    /\ \E r \in FGRowSet : DefinedAt(r) = {} /\ Composite[r] = NaN

\* the names that are both keys of the weight map and score columns
Restricted == DOMAIN Get(weights) \cap ScoreCols

\* C10: calibrated aggregation.  With a weight map the composite of a row is
\* intercept + the sum of weight[name] * score[name] over the names that are
\* both weight keys and score columns (a missing score adds nothing to the
\* sum); weight keys without a score column are ignored without error and
\* score columns without a weight contribute nothing; weights
\* {a: 0.5, b: 0.5} and intercept 10 on {a: 80, b: 40, c: missing} give 70.
C10_CalibratedSum ==
    /\ (FGDone /\ ~IsNone(weights) /\ ScoreCols # {}) =>
          /\ fg_name = "FG_est_cal"
          /\ \A r \in FGRowSet :
                LET used == Restricted \cap DefinedAt(r)
                IN  Composite[r] =
                        Add(intercept,
                            RatSum([c \in used |-> Mul(Get(weights)[c], ScoreCell(c, r))], used))
    /\ LET w == restrict_weights([a |-> Rat(1, 2), b |-> Rat(1, 2)], {"a", "b", "c"})
       IN  row_calibrated(ExampleRow, w, Float(10), 1) = Float(70)

\* C10 witness: a weight key without a score column, a defined score without a
\* weight, and a weighted defined score, in one finished calibrated call
C10_Witness ==
    /\ FGDone /\ fg_name = "FG_est_cal"
    /\ DOMAIN Get(weights) \ ScoreCols # {}
    /\ \E r \in FGRowSet :
          /\ DefinedAt(r) \ Restricted # {}
          /\ \E c \in Restricted \cap DefinedAt(r) : Lt(Float(0), ScoreCell(c, r))

\* the component scores that enter the composite of the finished call: every
\* score column in mean mode, the weighted ones in calibrated mode
Entering == IF IsNone(weights) THEN ScoreCols ELSE Restricted

\* C11: missing scores propagate through aggregation in both modes.  A row
\* in which every component score entering the composite is missing has a
\* missing composite, in calibrated mode as in mean mode.
C11_MissingPropagates ==
    (FGDone /\ Entering # {}) =>
        \A r \in FGRowSet :
            (\A c \in Entering : ScoreCell(c, r).nan) => Composite[r].nan

\* the result of the call on the same components with another model
ResultWith(m) ==
    compute_fear_greed(components, min_periods, window, lower_q, upper_q, m[1], m[2])

\* C12: the result exposes the aggregation mode and the component set used.
\* With at least one component column the returned name is FG_est_mean
\* exactly when no weight map is given and FG_est_cal exactly when one is;
\* and a call on the same components with a weight map that restricts to
\* another component set returns another result.
C12_ModeAndSetExposed ==
    (FGDone /\ ScoreCols # {}) =>
        /\ fg_name = "FG_est_mean" <=> IsNone(weights)
        /\ fg_name = "FG_est_cal" <=> ~IsNone(weights)
        /\ ~IsNone(weights) =>
               \A m \in ModelInputs :
                   (~IsNone(m[1]) /\ DOMAIN Get(m[1]) \cap ScoreCols # Restricted)
                   => ResultWith(m) # [scores |-> fg_scores, name |-> fg_name]

\* no component score exists for the composite of the finished call
NoComponentScore == ScoreCols = {} \/ (~IsNone(weights) /\ Restricted = {})

\* C13: no components available.  When the table has none of the known
\* component columns, or the weight map shares no key with the score
\* columns, the call returns a composite that is missing on every row.
C13_NoComponentsIsMissing ==
    (FGDone /\ NoComponentScore) => \A r \in FGRowSet : Composite[r].nan

(***************************************************************************)
(* Vocabulary of the properties of compute_components.                     *)
(***************************************************************************)
CCDone == pc = "cc_done"
CCRaised == pc = "cc_raised"
PanelCols == DOMAIN cc_df.cols
CCRowSet == 1..cc_df.nrows
ComponentNames == {component_order[k] : k \in 1..Len(component_order)}

\* the required raw series none of whose alias columns is in the panel
Absent ==
    {n \in DOMAIN aliases : \A k \in 1..Len(aliases[n]) : aliases[n][k] \notin PanelCols}

\* C14: compute_components fails if and only if a required raw series
\* (spx, vix, tlt, rsp, hyg) has none of its alias columns in the panel; the
\* error names every missing required series and lists the available
\* columns, and no component table is returned.
C14_MissingSeriesError ==
    /\ CCRaised =>
          /\ Absent # {}
          /\ ~IsNone(cc_error)
          /\ {Get(cc_error).missing[k] : k \in 1..Len(Get(cc_error).missing)} = Absent
          /\ Get(cc_error).available = PanelCols
          /\ cc_out.cols = <<>> /\ cc_k = 0
    /\ pc \in {"cc_derive", "cc_done"} => Absent = {} /\ IsNone(cc_error)

\* C14 witness: a raised call with two required series missing, the first of
\* the dict order present, and another one found under its canonical name
C14_Witness ==
    /\ CCRaised
    /\ Cardinality(Absent) >= 2
    /\ "spx" \notin Absent
    /\ "RSP" \in PanelCols /\ "rsp" \notin PanelCols

\* the optional raw series and the component each one feeds
OptionalSeries == {<<"HY_spread", "hy_spread">>, <<"put_call", "put_call">>}

\* C15: optional raw series.  A panel with every required series does not
\* fail; the component of an optional series that is absent is a column of
\* the table and missing on every row; the component of one that is present
\* equals the raw series row for row.
C15_OptionalSeries ==
    /\ CCRaised => Absent # {}
    /\ CCDone =>
          \A o \in OptionalSeries :
              /\ o[2] \in DOMAIN cc_out.cols
              /\ \A t \in CCRowSet :
                     cc_out.cols[o[2]][t] =
                         IF o[1] \in PanelCols THEN cc_df.cols[o[1]][t] ELSE NaN

\* C15 witness: a finished call without HY_spread and with a put_call series
\* that has a quote and a gap
C15_Witness ==
    /\ CCDone
    /\ "HY_spread" \notin PanelCols
    /\ "put_call" \in PanelCols
    /\ \E t, u \in CCRowSet : cc_df.cols["put_call"][t].nan /\ ~cc_df.cols["put_call"][u].nan
    /\ \A t \in CCRowSet : cc_out.cols["hy_spread"][t].nan

\* the panel truncated to rows <= t
TruncatedPanel(t) ==
    [nrows |-> t, cols |-> [c \in PanelCols |-> SubSeq(cc_df.cols[c], 1, t)]]

\* C16: component derivation is causal and index-preserving.  The returned
\* table has the rows of the panel, and every component at every row t has
\* the value it has on the panel truncated to rows <= t.
C16_CausalComponents ==
    CCDone =>
        /\ cc_out.nrows = cc_df.nrows
        /\ DOMAIN cc_out.cols = ComponentNames
        /\ \A c \in ComponentNames : DOMAIN cc_out.cols[c] = CCRowSet
        /\ \A t \in CCRowSet :
               LET cut == TruncatedPanel(t)
               IN  \A c \in ComponentNames :
                       component_at(cut, c, cc_fill, t) = cc_out.cols[c][t]

\* C16 witness: a long panel in which every component is defined at a row
\* that is followed by other quotes, past the longest moving-average window
C16_Witness ==
    /\ CCDone
    /\ cc_df.nrows > 200
    /\ ~cc_out.cols["strength_proxy"][cc_df.nrows].nan
    /\ \E t \in CCRowSet :
          /\ t > 125 /\ t < cc_df.nrows
          /\ \A c \in ComponentNames : ~cc_out.cols[c][t].nan
          /\ cc_df.cols["spx"][t + 1] # cc_df.cols["spx"][t]

(***************************************************************************)
(* Claims about get_fgi_estimation.                                        *)
(***************************************************************************)
GEDone == pc = "ge_done"

\* the dates get_fgi_estimation returned
ReturnedDates == {ge_result.index[k] : k \in 1..Len(ge_result.index)}

\* the score columns compute_fear_greed produced
ScoreColumns == DOMAIN ge_scored.scores.cols \ {ge_scored.name}

\* the composite of row r as compute_fear_greed produced it
CompositeAt(r) == ge_scored.scores.cols[ge_scored.name][r]

\* row r is a leading warm-up row: no component score is defined at r or
\* at any earlier row
WarmUp(r) == \A c \in ScoreColumns : \A q \in 1..r : ge_scored.scores.cols[c][q].nan

\* every returned row lies in [start_ts, end_ts] and has a defined composite
ReturnedInSpanAndDefined ==
    \A k \in 1..Len(ge_result.index) :
        /\ in_span(ge_result.index[k], ge_start_ts, ge_end_ts)
        /\ ~ge_result.cols["FG_estimation"][k].nan
        /\ ge_result.cols["FG_estimation"][k] = CompositeAt(ge_result.index[k])

\* every row of the span with a defined composite is returned
DefinedInSpanReturned ==
    \A r \in 1..ge_components.nrows :
        in_span(r, ge_start_ts, ge_end_ts) /\ ~CompositeAt(r).nan => r \in ReturnedDates

\* no leading warm-up row is returned
WarmUpNotReturned ==
    \A r \in 1..ge_components.nrows : WarmUp(r) => r \notin ReturnedDates

\* C17: when get_fgi_estimation returns, every returned row has a date in
\* [start_date, end_date] and a defined FG_estimation, every row of the span
\* with a defined composite is returned, and no leading row without any
\* defined component score (warm-up) is returned.
C17_OrchestratorOutput ==
    GEDone => ReturnedInSpanAndDefined /\ DefinedInSpanReturned /\ WarmUpNotReturned

\* C19: when use_calibrated_model is true and the model file is not
\* available, get_fgi_estimation does not fail on it and goes on with the
\* simple mean (weights None, intercept 0.0); the calibrated model is used
\* only when the file is available.
C19_ModelFallback ==
    /\ ge_req.use_calibrated_model /\ IsNone(ge_env.model_file)
           => /\ ge_error # "FileNotFoundError"
              /\ pc \in {"ge_raw", "ge_components", "ge_score", "ge_assemble", "ge_done"}
                     => ge_model = NoModel
    /\ pc \in {"ge_raw", "ge_components", "ge_score", "ge_assemble", "ge_done"}
           /\ ~IsNone(ge_model.weights)
           => ge_req.use_calibrated_model /\ ~IsNone(ge_env.model_file)

\* the request has ended, with a response or an exception
APIEnded == pc \in {"api_done", "api_raised"}

\* the columns under which the endpoints look for the composite
CompositeNames == {"FG_estimation", "FG_like"}

\* the frame has no composite column
LacksComposite(df) == DOMAIN df.cols \cap CompositeNames = {}

\* the columns of a returned table that are neither a raw component nor a
\* component score
CompositeColumns(table) ==
    DOMAIN table.cols \ ({add_prefix("raw_", c) : c \in ComponentNames}
                         \cup {add_prefix("score_", c) : c \in ComponentNames})

\* the exception of an endpoint on a frame without composite
StructuralError(handler) ==
    IF handler = "get_fgi" THEN "RuntimeError" ELSE "HTTPException 500"

\* C18: a request whose frame (the orchestrator's output, fresh or cached)
\* has no composite column ends with RuntimeError in get_fgi and HTTP 500 in
\* get_chart and returns nothing; a response is only ever built from a
\* composite column of the frame; and whenever get_fgi_estimation returns,
\* its table has exactly one composite column, FG_estimation, in both modes.
C18_StructuralError ==
    /\ APIEnded /\ ~IsNone(api_df) /\ LacksComposite(Get(api_df))
           => /\ pc = "api_raised"
              /\ api_resp = None
              /\ api_error = StructuralError(api_handler)
    /\ pc = "api_done" /\ ~IsNone(api_df)
           => /\ ~IsNone(api_col)
              /\ Get(api_col) \in DOMAIN Get(api_df).cols \cap CompositeNames
              /\ LET points == IF api_handler = "get_fgi" THEN Get(api_resp).series
                               ELSE Get(api_resp).datasets["fgi"]
                 IN  /\ Len(points) = Len(Get(api_df).index)
                     /\ \A k \in 1..Len(points) :
                            points[k].value = Get(api_df).cols[Get(api_col)][k]
    /\ GEDone => CompositeColumns(ge_result) = {"FG_estimation"}

\* C18 witness: get_chart met a cached frame without composite and ended
\* with HTTP 500
C18_Witness ==
    /\ pc = "api_raised"
    /\ api_handler = "get_chart"
    /\ ~IsNone(api_df)
    /\ LacksComposite(Get(api_df))
    /\ api_error = "HTTPException 500"
    /\ api_resp = None

\* a dataset the request asks for failed to load: the pipeline raised, the
\* frame has no composite column, or the call of get_market_series for the
\* key in hand raised (no stored series and the download or the write failed)
LoadFailed ==
    \/ ge_error # ""
    \/ ~IsNone(api_df) /\ IsNone(find_col(Get(api_df)))
    \/ mkt_proc[Handler].stage = "raised"

\* the keys of include that name a dataset
DatasetKeys ==
    {d \in {"fgi"} \cup DOMAIN MARKET_REGISTRY :
        \E k \in 1..Len(cur_keys) : cur_keys[k] = codes(d)}

\* C20: a get_chart request whose datasets all load ends with a
\* ChartResponse; the response carries a list of per-date component values
\* when with_components is true and none when it is false; keys that are
\* neither "fgi" nor a registered market id give no dataset and no failure.
C20_ChartComponents ==
    api_handler = "get_chart" /\ APIEnded /\ ~LoadFailed
        => /\ pc = "api_done"
           /\ Get(api_resp).kind = "ChartResponse"
           /\ DOMAIN Get(api_resp).datasets = DatasetKeys
           /\ api_req.with_components <=> ~IsNone(Get(api_resp).components)
           /\ api_req.with_components
                  => Get(Get(api_resp).components)
                         = components_list(Get(api_df), Get(api_col))

(***************************************************************************)
(* Claims about the response cache of get_fgi_series.                      *)
(***************************************************************************)
\* get_fgi_estimation is running for the call
Running(c) == svc_proc[c].stage = "running"

\* the call has returned its frame
Returned(c) == svc_proc[c].stage = "returned"

\* the combination of the call
CallCombination(c) == combination(svc_proc[c].args, api_env)

\* the pipeline runs only for a key without readable entry
InvokedOnlyOnMiss ==
    \A c \in Callers : Running(c) => IsNone(read_cache(api_cache, call_key(c)))

\* a call that begins after a frame was computed and written under its key
\* never invokes the pipeline and returns that frame
StoredFrameServed ==
    \A c \in Callers :
        ~IsNone(svc_proc[c].promised)
            => /\ ~svc_proc[c].ran
               /\ Returned(c) => svc_proc[c].df = svc_proc[c].promised

\* the frame a call returns from a file written by get_fgi_series was
\* computed for the combination of the call
NoCrossCombination ==
    \A c \in Callers :
        Returned(c) /\ call_key(c) \in DOMAIN svc_stored
            => /\ svc_stored[call_key(c)].combo = CallCombination(c)
               /\ svc_proc[c].df = Some(svc_stored[call_key(c)].frame)

\* C21: over any sequence of calls, get_fgi_estimation is invoked only
\* when the key (range_name, resolved end_date, with_components,
\* use_calibrated_model) has no readable cache entry; once a call has
\* computed and written a frame, every later call with the same key returns
\* that stored frame without recomputation; and a frame computed under one
\* combination is never returned for a call with another combination.
C21_ResponseCache == InvokedOnlyOnMiss /\ StoredFrameServed /\ NoCrossCombination

====
